---- MODULE Spec2Model ----
(***************************************************************************)
(* Model of the routing engine of claude-code-router.                      *)
(*                                                                         *)
(* Strings are finite sequences of symbols.  A symbol is one character or  *)
(* one reserved marker of the program ("," "_session_" "<env>" "claude"    *)
(* "haiku" "web_search" and the two CCR-SUBAGENT-MODEL tags), so that the  *)
(* string operations of the code (includes, split, startsWith, match,      *)
(* replace, toLowerCase) are computed position by position.  The empty     *)
(* string, undefined and null are all falsy in the code's tests and are    *)
(* all written << >>; an absent number is written 0.                       *)
(***************************************************************************)
EXTENDS Integers, Sequences, FiniteSets, TLC

VARIABLES
    config,               \* context.config of the running server
    fs,                   \* the files the router reads
    sessionProjectCache,  \* router.ts sessionProjectCache, most recent last
    sessionUsageCache,    \* cache.ts sessionUsageCache, most recent last
    pc,                   \* position of the request in flight
    req,                  \* the request object, mutated in place by router
    req0,                 \* the request as it was received
    env,                  \* what the collaborators do during this call
    out,                  \* what the call of router did
    lastTurn,             \* the last turn answered: session, usage, payload, what was sent
    bytes,                \* the bytes of a response body fed to SSEParserTransform
    consumed,             \* how many of them have been written to it, chunk by chunk
    buffer,               \* SSEParserTransform.buffer
    currentEvent,         \* SSEParserTransform.currentEvent
    enqueued,             \* the events it has enqueued on its readable side
    flushed,              \* its writable side was closed and flush has run
    scenario,             \* the event stream an intercepted response is made of
    source,               \* what the reader of rewriteStream has not read yet
    apc,                  \* position of the loop of rewriteStream
    toolState,            \* the AgentToolState of createAgentStreamProcessor
    reqMessages,          \* routerReq.body.messages
    fetches,              \* the bodies of the continuation requests sent
    response,             \* what is left of the answer being piped
    controller,           \* the controller of the stream rewriteStream returns
    delivered,            \* the chunks its consumer has read
    aborted,              \* abortController.abort() was called
    log,                  \* what was written with console.error
    timeoutId,            \* the timer of fetchToolResponse: none, pending, cleared, fired
    connection,           \* the continuation's connection: none, open, closed, aborted
    lookups,              \* the calls of searchProjectBySession in progress, by task
    scans,                \* how many times the projects directory was scanned, by session
    imageCache,           \* ImageCache.cache, least recently used first
    now,                  \* the time, in milliseconds
    uses,                 \* the image ids by last use, least recent first
    answer,               \* what the last operation on the image cache returned
    lockFile,             \* the file LOCK_FILE: whether it exists and its mtime
    countFile,            \* the number in REFERENCE_COUNT_FILE (-1: no file)
    countFile0,           \* the number that was in it before the first operation
    procs,                \* the processes that change the reference count
    clock                 \* Date.now() of the lock's machine, in milliseconds

routerVars ==
    <<config, fs, sessionProjectCache, sessionUsageCache, pc, req, req0, env, out, lastTurn>>
parserVars == <<bytes, consumed, buffer, currentEvent, enqueued, flushed>>
agentVars ==
    <<scenario, source, apc, toolState, reqMessages, fetches, response, controller,
      delivered, aborted, log, timeoutId, connection>>
lookupVars == <<lookups, scans>>
imageVars == <<imageCache, now, uses, answer>>
refVars == <<lockFile, countFile, countFile0, procs, clock>>
moreVars == <<lookupVars, imageVars, refVars>>
vars == <<routerVars, parserVars, agentVars, moreVars>>

(***************************************************************************)
(* Bounds of the model.                                                    *)
(***************************************************************************)
MaxSessions == 1
FillerTokens == 10000
UsageCacheMax == 2
MaxBlocks == 2
MaxChunk == 40
MaxSegments == 3
MaxTasks == 2
MaxLookups == 2
ImageCacheMax == 2
TickMs == 150000
MaxNow == 600000

(***************************************************************************)
(* Program constants.                                                      *)
(***************************************************************************)
DEFAULT_LONG_CONTEXT_THRESHOLD == 60000
LAST_USAGE_TOKEN_FLOOR == 20000
SESSION_PROJECT_CACHE_MAX == 1000

(***************************************************************************)
(* Strings.                                                                *)
(***************************************************************************)
Empty == << >>

COMMA == <<",">>
SESSION_MARK == <<"_session_">>
ENV_TAG == <<"<env>">>
OPEN_TAG == <<"<CCR-SUBAGENT-MODEL>">>
CLOSE_TAG == <<"</CCR-SUBAGENT-MODEL>">>
CLAUDE == <<"claude">>
HAIKU == <<"haiku">>
WEB_SEARCH == <<"web_search">>
SPECIAL_TOKEN == <<"<|endoftext|>">>

\* String.prototype.toLowerCase, symbol by symbol.
LowerSym(c) ==
    CASE c = "O" -> "o"
      [] c = "R" -> "r"
      [] c = "M" -> "m"
      [] c = "Z" -> "z"
      [] c = "CLAUDE" -> "claude"
      [] c = "HAIKU" -> "haiku"
      [] OTHER -> c

toLowerCase(s) == [i \in 1..Len(s) |-> LowerSym(s[i])]

\* s occurs in t at position i
OccursAt(t, s, i) ==
    /\ i >= 1
    /\ i + Len(s) - 1 <= Len(t)
    /\ SubSeq(t, i, i + Len(s) - 1) = s

includes(t, s) == \E i \in 1..(Len(t) + 1) : OccursAt(t, s, i)

startsWith(t, s) == OccursAt(t, s, 1)

\* least position of s in t, 0 when there is none
indexOf(t, s) ==
    IF includes(t, s)
    THEN CHOOSE i \in 1..(Len(t) + 1) :
            /\ OccursAt(t, s, i)
            /\ \A j \in 1..(i - 1) : ~OccursAt(t, s, j)
    ELSE 0

\* String.prototype.split with a non-empty separator
RECURSIVE split(_, _)
split(t, sep) ==
    LET i == indexOf(t, sep)
    IN  IF i = 0
        THEN <<t>>
        ELSE <<SubSeq(t, 1, i - 1)>> \o split(SubSeq(t, i + Len(sep), Len(t)), sep)

\* Array.prototype.pop on the result of split: its last element
pop(parts) == parts[Len(parts)]

\* String.prototype.replace(pattern, "") with a string pattern: the first
\* occurrence only
replaceFirst(t, s) ==
    LET i == indexOf(t, s)
    IN  IF i = 0 THEN t
        ELSE SubSeq(t, 1, i - 1) \o SubSeq(t, i + Len(s), Len(t))

\* matchSubagentModel with a greedy group, (.*) for (.*?)
matchSubagentModel_Greedy(t) ==
    LET starts == {i \in 1..Len(t) :
                     /\ OccursAt(t, OPEN_TAG, i)
                     /\ \E j \in (i + Len(OPEN_TAG))..Len(t) : OccursAt(t, CLOSE_TAG, j)}
    IN  IF starts = {}
        THEN [found |-> FALSE, group |-> Empty]
        ELSE LET i == CHOOSE x \in starts : \A y \in starts : x <= y
                 b == i + Len(OPEN_TAG)
                 j == CHOOSE x \in b..Len(t) :
                        /\ OccursAt(t, CLOSE_TAG, x)
                        /\ \A y \in (x + 1)..Len(t) : ~OccursAt(t, CLOSE_TAG, y)
             IN  [found |-> TRUE, group |-> SubSeq(t, b, j - 1)]

\* text.match(/<CCR-SUBAGENT-MODEL>(.*?)<\/CCR-SUBAGENT-MODEL>/s): the leftmost
\* opening tag that is followed by a closing tag, and the shortest text between
\* them.  found = FALSE stands for null.
matchSubagentModel(t) ==
    LET starts == {i \in 1..Len(t) :
                     /\ OccursAt(t, OPEN_TAG, i)
                     /\ \E j \in (i + Len(OPEN_TAG))..Len(t) : OccursAt(t, CLOSE_TAG, j)}
    IN  IF starts = {}
        THEN [found |-> FALSE, group |-> Empty]
        ELSE LET i == CHOOSE x \in starts : \A y \in starts : x <= y
                 b == i + Len(OPEN_TAG)
                 j == CHOOSE x \in b..Len(t) :
                        /\ OccursAt(t, CLOSE_TAG, x)
                        /\ \A y \in b..(x - 1) : ~OccursAt(t, CLOSE_TAG, y)
             IN  [found |-> TRUE, group |-> SubSeq(t, b, j - 1)]

\* enc.encode(text).length: every symbol is one token, except the filler
\* symbol, which stands for a run of FillerTokens tokens of ordinary text.
RECURSIVE Encode(_)
Encode(t) ==
    IF t = Empty THEN 0
    ELSE (IF Head(t) = "#" THEN FillerTokens ELSE 1) + Encode(Tail(t))

(***************************************************************************)
(* calculateTokenCount.                                                    *)
(*   message  [role, content]                                              *)
(*   content  [kind |-> "string", text, parts] or [kind |-> "array", ...]  *)
(*   part     [type, text]: text is the text of a text part, the           *)
(*            JSON.stringify of the input of a tool_use part, the content  *)
(*            (or its JSON.stringify) of a tool_result part                *)
(*   system   [kind |-> "string" or "array", text, blocks]                 *)
(*   tool     [type, name, description, input_schema]                      *)
(***************************************************************************)
RECURSIVE SumSeq(_)
SumSeq(ns) == IF ns = << >> THEN 0 ELSE Head(ns) + SumSeq(Tail(ns))

partTokens(contentPart) ==
    IF contentPart.type \in {"text", "tool_use", "tool_result"}
    THEN Encode(contentPart.text)
    ELSE 0

messageTokens(message) ==
    IF message.content.kind = "string"
    THEN Encode(message.content.text)
    ELSE SumSeq([i \in 1..Len(message.content.parts) |->
                    partTokens(message.content.parts[i])])

systemTokens(system) ==
    IF system.kind = "string"
    THEN Encode(system.text)
    ELSE SumSeq([i \in 1..Len(system.blocks) |->
                    IF system.blocks[i].type # "text" THEN 0
                    ELSE Encode(system.blocks[i].text)])

toolTokens(tool) ==
    (IF tool.description # Empty THEN Encode(tool.name \o tool.description) ELSE 0)
    + (IF tool.input_schema # Empty THEN Encode(tool.input_schema) ELSE 0)

\* calculateTokenCount with a fixed number of tokens added for the request
calculateTokenCount_Primed(messages, system, tools) ==
    3
    + SumSeq([i \in 1..Len(messages) |-> messageTokens(messages[i])])
    + systemTokens(system)
    + SumSeq([i \in 1..Len(tools) |-> toolTokens(tools[i])])

calculateTokenCount(messages, system, tools) ==
    SumSeq([i \in 1..Len(messages) |-> messageTokens(messages[i])])
    + systemTokens(system)
    + SumSeq([i \in 1..Len(tools) |-> toolTokens(tools[i])])

\* enc.encode(text) raises: tiktoken refuses a text that holds one of its
\* special tokens (disallowed_special defaults to "all")
encodeThrows(t) == includes(t, SPECIAL_TOKEN)

\* calculateTokenCount raises: one of the texts it encodes makes enc.encode raise
tokenCountThrows(messages, system, tools) ==
    \/ \E i \in 1..Len(messages) :
          \/ messages[i].content.kind = "string" /\ encodeThrows(messages[i].content.text)
          \/ /\ messages[i].content.kind = "array"
             /\ \E j \in 1..Len(messages[i].content.parts) :
                   /\ messages[i].content.parts[j].type \in {"text", "tool_use", "tool_result"}
                   /\ encodeThrows(messages[i].content.parts[j].text)
    \/ system.kind = "string" /\ encodeThrows(system.text)
    \/ /\ system.kind = "array"
       /\ \E i \in 1..Len(system.blocks) :
             system.blocks[i].type = "text" /\ encodeThrows(system.blocks[i].text)
    \/ \E i \in 1..Len(tools) :
          \/ tools[i].description # Empty /\ encodeThrows(tools[i].name \o tools[i].description)
          \/ tools[i].input_schema # Empty /\ encodeThrows(tools[i].input_schema)

(***************************************************************************)
(* LRUCache (lru-cache): a sequence of [key, value], least recently used   *)
(* first.  has does not refresh recency; get and set do.                   *)
(***************************************************************************)
LruHas(cache, k) == \E i \in 1..Len(cache) : cache[i].key = k

LruIndex(cache, k) == CHOOSE i \in 1..Len(cache) : cache[i].key = k

LruWithout(cache, k) ==
    IF LruHas(cache, k)
    THEN LET i == LruIndex(cache, k)
         IN  SubSeq(cache, 1, i - 1) \o SubSeq(cache, i + 1, Len(cache))
    ELSE cache

LruValue(cache, k) == cache[LruIndex(cache, k)].value

LruTouch(cache, k) ==
    IF LruHas(cache, k)
    THEN LruWithout(cache, k) \o <<[key |-> k, value |-> LruValue(cache, k)]>>
    ELSE cache

LruSet(cache, k, v, max) ==
    LET put == LruWithout(cache, k) \o <<[key |-> k, value |-> v]>>
    IN  IF Len(put) > max THEN Tail(put) ELSE put

(***************************************************************************)
(* The files the router reads.                                             *)
(*   fs.projectsReadable  opendir(CLAUDE_PROJECTS_DIR) succeeds            *)
(*   fs.entries           its entries in iteration order:                  *)
(*                        [name, isDirectory, files, dirs], files and dirs *)
(*                        being the names of the regular files and of the  *)
(*                        other entries inside it                          *)
(*   fs.home              the JSON files under HOME_DIR that can be read   *)
(*                        and parsed: [path, hasRouter, Router]            *)
(*   fs.prompt            the file config.REWRITE_SYSTEM_PROMPT names:     *)
(*                        [exists, content]                                *)
(***************************************************************************)
NoRouter ==
    [default |-> Empty, background |-> Empty, think |-> Empty, longContext |-> Empty,
     longContextThreshold |-> 0, webSearch |-> Empty]

\* readConfigFile: ok = FALSE stands for null
readConfigFile(files, filePath) ==
    IF \E f \in files.home : f.path = filePath
    THEN LET f == CHOOSE g \in files.home : g.path = filePath
         IN  [ok |-> TRUE, hasRouter |-> f.hasRouter, Router |-> f.Router]
    ELSE [ok |-> FALSE, hasRouter |-> FALSE, Router |-> NoRouter]

\* Array.prototype.filter
RECURSIVE SelectDirs(_)
SelectDirs(entries) ==
    IF entries = << >> THEN << >>
    ELSE (IF Head(entries).isDirectory THEN <<Head(entries)>> ELSE << >>)
         \o SelectDirs(Tail(entries))

\* one element of checkPromises: the folder name, or Empty for null
checkFolder(folder, sessionId) ==
    IF (sessionId \o <<".jsonl">>) \in folder.files THEN folder.name ELSE Empty

\* the last truthy element of results instead of the first
RECURSIVE firstFound_Last(_)
firstFound_Last(results) ==
    IF results = << >> THEN Empty
    ELSE IF results[Len(results)] # Empty THEN results[Len(results)]
    ELSE firstFound_Last(SubSeq(results, 1, Len(results) - 1))

\* the first truthy element of results, Empty when there is none
RECURSIVE firstFound(_)
firstFound(results) ==
    IF results = << >> THEN Empty
    ELSE IF Head(results) # Empty THEN Head(results)
    ELSE firstFound(Tail(results))

scanProjects(files, sessionId) ==
    LET folders == SelectDirs(files.entries)
        results == [i \in 1..Len(folders) |-> checkFolder(folders[i], sessionId)]
    IN  firstFound(results)

\* searchProjectBySession after its test of the cache: the scan, and the set
\* of its result on the cache as it is when the scan ends
scanAndCache(sessionId, cache, files) ==
    IF ~files.projectsReadable
    THEN [project |-> Empty,
          cache |-> LruSet(cache, sessionId, Empty, SESSION_PROJECT_CACHE_MAX),
          scanned |-> TRUE]
    ELSE LET result == scanProjects(files, sessionId)
         IN  [project |-> result,
              cache |-> LruSet(cache, sessionId, result, SESSION_PROJECT_CACHE_MAX),
              scanned |-> TRUE]

\* searchProjectBySession: [project, cache, scanned]; project = Empty is null
searchProjectBySession(sessionId, cache, files) ==
    IF LruHas(cache, sessionId)
    THEN [project |-> LruValue(cache, sessionId),
          cache |-> LruTouch(cache, sessionId),
          scanned |-> FALSE]
    ELSE scanAndCache(sessionId, cache, files)

\* getProjectSpecificRouter: [scope, Router, cache]; scope = "global" is undefined
getProjectSpecificRouter(r, cache, files) ==
    IF r.sessionId = Empty
    THEN [scope |-> "global", Router |-> NoRouter, cache |-> cache]
    ELSE LET found == searchProjectBySession(r.sessionId, cache, files)
             project == found.project
             projectConfig == readConfigFile(files, <<project, <<"config", ".json">>>>)
             sessionConfig == readConfigFile(files, <<project, r.sessionId \o <<".json">>>>)
         IN  IF project = Empty
             THEN [scope |-> "global", Router |-> NoRouter, cache |-> found.cache]
             ELSE IF sessionConfig.ok /\ sessionConfig.hasRouter
             THEN [scope |-> "session", Router |-> sessionConfig.Router, cache |-> found.cache]
             ELSE IF projectConfig.ok /\ projectConfig.hasRouter
             THEN [scope |-> "project", Router |-> projectConfig.Router, cache |-> found.cache]
             ELSE [scope |-> "global", Router |-> NoRouter, cache |-> found.cache]

(***************************************************************************)
(* getUseModel.                                                            *)
(*   request  [body |-> [model, messages, system, tools, thinking,         *)
(*                       metadata |-> [user_id]], sessionId, tokenCount]   *)
(*   config   [Router, Providers, CUSTOM_ROUTER_PATH, REWRITE_SYSTEM_PROMPT]*)
(*   usage    [present, input_tokens, output_tokens]                       *)
(***************************************************************************)
\* Array.prototype.find with the predicate toLowerCase(x) = wanted:
\* [found, value]
RECURSIVE findLower(_, _)
findLower(names, wanted) ==
    IF names = << >> THEN [found |-> FALSE, value |-> Empty]
    ELSE IF toLowerCase(Head(names)) = wanted THEN [found |-> TRUE, value |-> Head(names)]
    ELSE findLower(Tail(names), wanted)

\* config.Providers.find((p) => p.name.toLowerCase() === provider):
\* [found, name, models]
RECURSIVE findProvider(_, _)
findProvider(providers, provider) ==
    IF providers = << >> THEN [found |-> FALSE, name |-> Empty, models |-> << >>]
    ELSE IF toLowerCase(Head(providers).name) = provider
    THEN [found |-> TRUE, name |-> Head(providers).name, models |-> Head(providers).models]
    ELSE findProvider(Tail(providers), provider)

\* rule 1, lines 154-166: [explicit, resolved, model]
explicitModel(model, cfg) ==
    IF ~includes(model, COMMA)
    THEN [explicit |-> FALSE, resolved |-> FALSE, model |-> Empty]
    ELSE LET parts == split(model, COMMA)
             finalProvider == findProvider(cfg.Providers, parts[1])
             finalModel == findLower(finalProvider.models, parts[2])
         IN  IF finalProvider.found /\ finalModel.found /\ finalModel.value # Empty
             THEN [explicit |-> TRUE, resolved |-> TRUE,
                   model |-> finalProvider.name \o COMMA \o finalModel.value]
             ELSE [explicit |-> TRUE, resolved |-> FALSE, model |-> model]

\* rule 2, lines 168-175
longContextThreshold(Router) ==
    IF Router.longContextThreshold # 0 THEN Router.longContextThreshold
    ELSE DEFAULT_LONG_CONTEXT_THRESHOLD

\* useLongContext with >= for >
useLongContext_NotStrict(Router, tokenCount, lastUsage) ==
    LET lastUsageThreshold ==
            /\ lastUsage.present
            /\ lastUsage.input_tokens >= longContextThreshold(Router)
            /\ tokenCount >= LAST_USAGE_TOKEN_FLOOR
        tokenCountThreshold == tokenCount >= longContextThreshold(Router)
    IN  (lastUsageThreshold \/ tokenCountThreshold) /\ Router.longContext # Empty

useLongContext(Router, tokenCount, lastUsage) ==
    LET lastUsageThreshold ==
            /\ lastUsage.present
            /\ lastUsage.input_tokens > longContextThreshold(Router)
            /\ tokenCount > LAST_USAGE_TOKEN_FLOOR
        tokenCountThreshold == tokenCount > longContextThreshold(Router)
    IN  (lastUsageThreshold \/ tokenCountThreshold) /\ Router.longContext # Empty

\* rule 3, lines 181-195: [found, model, system]
subagentModel(system) ==
    IF /\ system.kind = "array"
       /\ Len(system.blocks) > 1
       /\ startsWith(system.blocks[2].text, OPEN_TAG)
       /\ matchSubagentModel(system.blocks[2].text).found
    THEN LET text == system.blocks[2].text
             model == matchSubagentModel(text).group
         IN  [found |-> TRUE, model |-> model,
              system |-> [system EXCEPT !.blocks[2].text =
                             replaceFirst(text, OPEN_TAG \o model \o CLOSE_TAG)]]
    ELSE [found |-> FALSE, model |-> Empty, system |-> system]

\* rule 4, lines 197-204
useBackground(model, cfg) ==
    /\ includes(model, CLAUDE)
    /\ includes(model, HAIKU)
    /\ cfg.Router.background # Empty

\* rule 5, lines 206-212
useWebSearch(tools, Router) ==
    /\ \E i \in 1..Len(tools) : startsWith(tools[i].type, WEB_SEARCH)
    /\ Router.webSearch # Empty

\* rule 6, line 214
useThink(thinking, Router) == thinking /\ Router.think # Empty

\* chooseModel with the long-context rule tried before the explicit pair
chooseModel_LongContextFirst(r, tokenCount, cfg, lastUsage, Router, explicit, subagent) ==
    IF useLongContext(Router, tokenCount, lastUsage)
    THEN [model |-> Router.longContext, rule |-> "longContext"]
    ELSE IF explicit.explicit
    THEN [model |-> explicit.model,
          rule |-> IF explicit.resolved THEN "explicit" ELSE "raw"]
    ELSE IF subagent.found
    THEN [model |-> subagent.model, rule |-> "subagent"]
    ELSE IF useBackground(r.body.model, cfg)
    THEN [model |-> cfg.Router.background, rule |-> "background"]
    ELSE IF useWebSearch(r.body.tools, Router)
    THEN [model |-> Router.webSearch, rule |-> "webSearch"]
    ELSE IF useThink(r.body.thinking, Router)
    THEN [model |-> Router.think, rule |-> "think"]
    ELSE [model |-> Router.default, rule |-> "default"]

\* chooseModel with the thinking rule tried before the web-search rule
chooseModel_ThinkFirst(r, tokenCount, cfg, lastUsage, Router, explicit, subagent) ==
    IF explicit.explicit
    THEN [model |-> explicit.model,
          rule |-> IF explicit.resolved THEN "explicit" ELSE "raw"]
    ELSE IF useLongContext(Router, tokenCount, lastUsage)
    THEN [model |-> Router.longContext, rule |-> "longContext"]
    ELSE IF subagent.found
    THEN [model |-> subagent.model, rule |-> "subagent"]
    ELSE IF useBackground(r.body.model, cfg)
    THEN [model |-> cfg.Router.background, rule |-> "background"]
    ELSE IF useThink(r.body.thinking, Router)
    THEN [model |-> Router.think, rule |-> "think"]
    ELSE IF useWebSearch(r.body.tools, Router)
    THEN [model |-> Router.webSearch, rule |-> "webSearch"]
    ELSE [model |-> Router.default, rule |-> "default"]

\* the rules of lines 154-218 in order, first match wins: [model, rule]
chooseModel(r, tokenCount, cfg, lastUsage, Router, explicit, subagent) ==
    IF explicit.explicit
    THEN [model |-> explicit.model,
          rule |-> IF explicit.resolved THEN "explicit" ELSE "raw"]
    ELSE IF useLongContext(Router, tokenCount, lastUsage)
    THEN [model |-> Router.longContext, rule |-> "longContext"]
    ELSE IF subagent.found
    THEN [model |-> subagent.model, rule |-> "subagent"]
    ELSE IF useBackground(r.body.model, cfg)
    THEN [model |-> cfg.Router.background, rule |-> "background"]
    ELSE IF useWebSearch(r.body.tools, Router)
    THEN [model |-> Router.webSearch, rule |-> "webSearch"]
    ELSE IF useThink(r.body.thinking, Router)
    THEN [model |-> Router.think, rule |-> "think"]
    ELSE [model |-> Router.default, rule |-> "default"]

\* line 152: projectSpecificRouter || config.Router
effectiveRouter(projectSpecificRouter, cfg) ==
    IF projectSpecificRouter.scope # "global"
    THEN projectSpecificRouter.Router
    ELSE cfg.Router

\* what getUseModel returns and leaves behind: [model, rule, system, cache, scope]
useModelResult(r, chosen, subagent, projectSpecificRouter) ==
    [model |-> chosen.model,
     rule |-> chosen.rule,
     system |-> IF chosen.rule = "subagent" THEN subagent.system ELSE r.body.system,
     cache |-> projectSpecificRouter.cache,
     scope |-> projectSpecificRouter.scope]

useModelWith(r, tokenCount, cfg, lastUsage, projectSpecificRouter, subagent) ==
    useModelResult(r,
        chooseModel(r, tokenCount, cfg, lastUsage,
                    effectiveRouter(projectSpecificRouter, cfg),
                    explicitModel(r.body.model, cfg), subagent),
        subagent, projectSpecificRouter)

getUseModel(r, tokenCount, cfg, lastUsage, cache, files) ==
    useModelWith(r, tokenCount, cfg, lastUsage,
                 getProjectSpecificRouter(r, cache, files),
                 subagentModel(r.body.system))

(***************************************************************************)
(* router.                                                                 *)
(*   e  what the collaborators do during the call:                         *)
(*      e.custom        [kind |-> "loadFails" | "throws" | "value", value] *)
(*                      of require(CUSTOM_ROUTER_PATH) and of its call     *)
(***************************************************************************)
NoUsage == [present |-> FALSE, input_tokens |-> 0, output_tokens |-> 0]

\* parseSessionId taking the part before the marker
parseSessionId_Opaque(user_id) ==
    IF user_id = Empty THEN Empty
    ELSE LET parts == split(user_id, SESSION_MARK)
         IN  IF Len(parts) > 1 THEN parts[1] ELSE Empty

\* lines 238-243
parseSessionId(user_id) ==
    IF user_id = Empty THEN Empty
    ELSE LET parts == split(user_id, SESSION_MARK)
         IN  IF Len(parts) > 1 THEN parts[2] ELSE Empty

\* sessionUsageCache.get: [usage, cache]
usageGet(cache, sessionId) ==
    IF sessionId # Empty /\ LruHas(cache, sessionId)
    THEN [usage |-> LruValue(cache, sessionId), cache |-> LruTouch(cache, sessionId)]
    ELSE [usage |-> NoUsage, cache |-> cache]

\* the condition of lines 246-250
rewriteApplies(cfg, system) ==
    /\ cfg.REWRITE_SYSTEM_PROMPT # Empty
    /\ system.kind = "array"
    /\ Len(system.blocks) > 1
    /\ includes(system.blocks[2].text, ENV_TAG)

\* line 252
rewriteSystem(system, prompt) ==
    [system EXCEPT !.blocks[2].text =
        prompt \o ENV_TAG \o pop(split(system.blocks[2].text, ENV_TAG))]

\* callCustomRouter whose failure is answered like the outer catch, with the
\* default target
callCustomRouter_FailureFallsBack(cfg, e) ==
    IF cfg.CUSTOM_ROUTER_PATH = Empty
    THEN [invoked |-> FALSE, loaded |-> FALSE, model |-> Empty, errors |-> 0]
    ELSE IF e.custom.kind = "loadFails"
    THEN [invoked |-> TRUE, loaded |-> FALSE, model |-> cfg.Router.default, errors |-> 1]
    ELSE IF e.custom.kind = "throws"
    THEN [invoked |-> TRUE, loaded |-> TRUE, model |-> cfg.Router.default, errors |-> 1]
    ELSE [invoked |-> TRUE, loaded |-> TRUE, model |-> e.custom.value, errors |-> 0]

\* lines 263-273: [invoked, loaded, model, errors]
callCustomRouter(cfg, e) ==
    IF cfg.CUSTOM_ROUTER_PATH = Empty
    THEN [invoked |-> FALSE, loaded |-> FALSE, model |-> Empty, errors |-> 0]
    ELSE IF e.custom.kind = "loadFails"
    THEN [invoked |-> TRUE, loaded |-> FALSE, model |-> Empty, errors |-> 1]
    ELSE IF e.custom.kind = "throws"
    THEN [invoked |-> TRUE, loaded |-> TRUE, model |-> Empty, errors |-> 1]
    ELSE [invoked |-> TRUE, loaded |-> TRUE, model |-> e.custom.value, errors |-> 0]

\* what a call of router did: the request as it leaves it, the two caches, and
\* a record of the steps taken
routerResult(outcome, r, projectCache, last, rule, scope, custom, builtin, counted, tokenCount, errors) ==
    [outcome |-> outcome, req |-> r, projectCache |-> projectCache,
     usageCache |-> last.cache, rule |-> rule, scope |-> scope,
     customInvoked |-> custom, builtinInvoked |-> builtin, tokenCount |-> tokenCount,
     counted |-> counted, lastUsage |-> last.usage, errors |-> errors]

\* lines 274-277, the built-in sequence: model = await getUseModel(...)
routeBuiltin(r, tokenCount, custom, use, last) ==
    routerResult("returned",
                 [r EXCEPT !.body.model = use.model, !.body.system = use.system],
                 use.cache, last, use.rule, use.scope, custom.invoked, TRUE, TRUE,
                 tokenCount, custom.errors)

\* lines 262-277, after the token count
routeCounted(r, tokenCount, cfg, custom, projectCache, last, files) ==
    IF custom.model # Empty
    THEN routerResult("returned",
                      [r EXCEPT !.tokenCount = tokenCount, !.body.model = custom.model],
                      projectCache, last, "custom", "none", TRUE, FALSE, TRUE, tokenCount, 0)
    ELSE routeBuiltin(IF custom.loaded THEN [r EXCEPT !.tokenCount = tokenCount] ELSE r,
                      tokenCount, custom,
                      getUseModel(IF custom.loaded THEN [r EXCEPT !.tokenCount = tokenCount] ELSE r,
                                  tokenCount, cfg, last.usage, projectCache, files),
                      last)

\* lines 255-281, the try block and its catch
routeGuarded(r, cfg, e, projectCache, last, files) ==
    IF tokenCountThrows(r.body.messages, r.body.system, r.body.tools)
    THEN routerResult("returned", [r EXCEPT !.body.model = cfg.Router.default],
                      projectCache, last, "fallback", "none", FALSE, FALSE, FALSE, 0, 1)
    ELSE routeCounted(r, calculateTokenCount(r.body.messages, r.body.system, r.body.tools),
                      cfg, callCustomRouter(cfg, e), projectCache, last, files)

\* lines 246-253, the system prompt rewrite, outside the try block
routeRewrite(r, cfg, e, projectCache, last, files) ==
    IF ~rewriteApplies(cfg, r.body.system)
    THEN routeGuarded(r, cfg, e, projectCache, last, files)
    ELSE IF ~files.prompt.exists
    THEN routerResult("threw", r, projectCache, last, "none", "none", FALSE, FALSE, FALSE, 0, 0)
    ELSE routeGuarded([r EXCEPT !.body.system = rewriteSystem(r.body.system, files.prompt.content)],
                      cfg, e, projectCache, last, files)

\* lines 238-244: req.sessionId and lastMessageUsage
withSessionId(r, sessionId) ==
    IF sessionId # Empty THEN [r EXCEPT !.sessionId = sessionId] ELSE r

routeSession(r, cfg, e, projectCache, usageCache, files) ==
    routeRewrite(r, cfg, e, projectCache, usageGet(usageCache, r.sessionId), files)

\* the whole of router, lines 235-283
router(r, cfg, e, projectCache, usageCache, files) ==
    routeSession(withSessionId(r, parseSessionId(r.body.metadata.user_id)),
                 cfg, e, projectCache, usageCache, files)

(***************************************************************************)
(* The configurations, files and requests the model draws from.            *)
(***************************************************************************)
SessionSym == <<"s1", "s2", "s3", "s4">>
SessionIds == {<<SessionSym[n]>> : n \in 1..MaxSessions}
UserIds == {Empty} \cup {<<"u">> \o SESSION_MARK \o sid : sid \in SessionIds}
\* a user_id with two markers, and one with nothing after the marker
OddUserIds ==
    {<<"u">> \o SESSION_MARK \o <<"s1">> \o SESSION_MARK \o <<"x">>,
     <<"u">> \o SESSION_MARK}

\* the target a routing section of the given scope names for a tier
Target(scope, tier) == <<scope, ",", tier>>

RouterOf(scope, tiers, threshold) ==
    [default |-> Target(scope, "default"),
     background |-> IF "background" \in tiers THEN Target(scope, "background") ELSE Empty,
     think |-> IF "think" \in tiers THEN Target(scope, "think") ELSE Empty,
     longContext |-> IF "longContext" \in tiers THEN Target(scope, "longContext") ELSE Empty,
     longContextThreshold |-> threshold,
     webSearch |-> IF "webSearch" \in tiers THEN Target(scope, "webSearch") ELSE Empty]

Tiers == {"background", "think", "longContext", "webSearch"}
LowThreshold == 3 * FillerTokens

Providers ==
    << [name |-> <<"O", "r">>, models |-> << <<"M", "x">> >>],
       [name |-> <<"z">>, models |-> << <<"m">>, <<"claude", "-", "haiku">> >>] >>

ConfigOf(Router, custom, rewrite) ==
    [Router |-> Router, Providers |-> Providers,
     CUSTOM_ROUTER_PATH |-> custom, REWRITE_SYSTEM_PROMPT |-> rewrite]

CUSTOM_PATH == <<"c", ".", "j", "s">>
PROMPT_PATH == <<"p", ".", "m", "d">>

PlainConfigs ==
    {ConfigOf(RouterOf("g", tiers, 0), Empty, Empty) : tiers \in SUBSET Tiers}
    \cup {ConfigOf(RouterOf("g", tiers, LowThreshold), Empty, Empty) :
             tiers \in {Tiers, {"longContext"}}}
ScopedConfigs ==
    {ConfigOf(RouterOf("g", tiers, 0), Empty, Empty) : tiers \in {Tiers, {}, {"think"}}}
CustomConfigs ==
    {ConfigOf(RouterOf("g", tiers, 0), CUSTOM_PATH, Empty) : tiers \in {Tiers, {}}}
RewriteConfigs ==
    {ConfigOf(RouterOf("g", Tiers, 0), Empty, PROMPT_PATH)}

ProjectRouter == RouterOf("p", Tiers, LowThreshold)
SessionRouter == RouterOf("s", {"webSearch", "think"}, 0)

S1File == <<"s1", ".jsonl">>
Junk == [name |-> <<"j">>, isDirectory |-> FALSE, files |-> {}, dirs |-> {}]
P1 == [name |-> <<"p1">>, isDirectory |-> TRUE, files |-> {S1File}, dirs |-> {}]
P1NoFile == [name |-> <<"p1">>, isDirectory |-> TRUE, files |-> {}, dirs |-> {S1File}]
P2 == [name |-> <<"p2">>, isDirectory |-> TRUE, files |-> {S1File}, dirs |-> {}]

HomeFile(project, name, hasRouter, Router) ==
    [path |-> <<project, name>>, hasRouter |-> hasRouter, Router |-> Router]
ProjectConfigFile(project) ==
    HomeFile(project, <<"config", ".json">>, TRUE, ProjectRouter)

Prompt == [exists |-> TRUE, content |-> <<"P">>]
NoPrompt == [exists |-> FALSE, content |-> Empty]

FsOf(readable, entries, home, prompt) ==
    [projectsReadable |-> readable, entries |-> entries, home |-> home, prompt |-> prompt]

FsPlain == FsOf(TRUE, <<Junk, P1, P2>>, {}, Prompt)
FsUnreadable == FsOf(FALSE, << >>, {ProjectConfigFile(<<"p1">>)}, Prompt)
FsProject == FsOf(TRUE, <<Junk, P1, P2>>, {ProjectConfigFile(<<"p1">>)}, Prompt)
FsSession ==
    FsOf(TRUE, <<Junk, P1, P2>>,
         {ProjectConfigFile(<<"p1">>),
          HomeFile(<<"p1">>, <<"s1", ".json">>, TRUE, SessionRouter)}, Prompt)
FsNoSection ==
    FsOf(TRUE, <<P1, P2>>,
         {ProjectConfigFile(<<"p1">>),
          HomeFile(<<"p1">>, <<"s1", ".json">>, FALSE, NoRouter)}, Prompt)
FsSecond ==
    FsOf(TRUE, <<P1NoFile, Junk, P2>>,
         {ProjectConfigFile(<<"p1">>), ProjectConfigFile(<<"p2">>)}, Prompt)
FsNoPrompt == FsOf(TRUE, <<Junk, P1, P2>>, {}, NoPrompt)

Deployments ==
    {[config |-> c, fs |-> FsPlain] : c \in PlainConfigs \cup CustomConfigs \cup RewriteConfigs}
    \cup {[config |-> c, fs |-> f] :
            c \in ScopedConfigs, f \in {FsProject, FsSession, FsNoSection, FsSecond, FsUnreadable}}
    \cup {[config |-> c, fs |-> FsProject] : c \in CustomConfigs}
    \cup {[config |-> c, fs |-> FsNoPrompt] : c \in RewriteConfigs}

\* requests
Filler(n) == [i \in 1..n |-> "#"]
Part(type, text) == [type |-> type, text |-> text]
MsgString(text) ==
    [role |-> "user", content |-> [kind |-> "string", text |-> text, parts |-> << >>]]
MsgArray(parts) ==
    [role |-> "assistant", content |-> [kind |-> "array", text |-> Empty, parts |-> parts]]

MsgsTiny == <<MsgString(<<"h", "i">>)>>
Msgs2 == <<MsgString(Filler(2))>>
Msgs6 ==
    <<MsgString(Filler(2)),
      MsgArray(<<Part("text", Filler(3)), Part("image", <<"i">>), Part("tool_use", Filler(1))>>)>>
Msgs7 == <<MsgString(Filler(3)), MsgArray(<<Part("tool_result", Filler(4))>>)>>
MsgsSpecial == <<MsgString(<<"h">> \o SPECIAL_TOKEN)>>

Block(text) == [type |-> "text", text |-> text]
SysArray(blocks) == [kind |-> "array", text |-> Empty, blocks |-> blocks]
Tagged(id) == OPEN_TAG \o id \o CLOSE_TAG
SubId == <<"x", ",", "y">>
SysNone == SysArray(<< >>)
SysTag == SysArray(<<Block(<<"b">>), Block(Tagged(SubId) \o <<"r">> \o Tagged(SubId))>>)
SysEmptyTag == SysArray(<<Block(<<"b">>), Block(Tagged(Empty) \o <<"r">>)>>)
SysEnv == SysArray(<<Block(<<"b">>), Block(<<"a">> \o ENV_TAG \o <<"c">> \o ENV_TAG \o <<"e">>)>>)
SysTagEnv == SysArray(<<Block(<<"b">>), Block(Tagged(SubId) \o ENV_TAG \o <<"e">>)>>)
SysOpen == SysArray(<<Block(<<"b">>), Block(OPEN_TAG \o <<"x">>)>>)
SysLate == SysArray(<<Block(<<"b">>), Block(<<"a">> \o Tagged(SubId))>>)
SysOne == SysArray(<<Block(Tagged(SubId))>>)
SysString == [kind |-> "string", text |-> Tagged(SubId), blocks |-> << >>]
Systems == {SysNone, SysTag, SysEmptyTag, SysEnv, SysTagEnv, SysOpen, SysLate, SysOne, SysString}

WebTool ==
    [type |-> WEB_SEARCH \o <<"_", "2">>, name |-> <<"w">>,
     description |-> Empty, input_schema |-> Empty]
PlainTool ==
    [type |-> Empty, name |-> <<"t">>, description |-> <<"d">>, input_schema |-> <<"{", "}">>]
ToolsWeb == <<PlainTool, WebTool>>
ToolsPlain == <<PlainTool>>

ModelPlain == <<"claude", "-", "sonnet">>
ModelHaiku == <<"claude", "-", "3", "-", "haiku">>
ModelPairHaiku == <<"z", ",", "claude", "-", "haiku">>
ModelNames ==
    {ModelPlain, ModelHaiku, ModelPairHaiku,
     <<"z", ",", "m">>, <<"Z", ",", "m">>, <<"z", ",", "M">>,
     <<"o", "r", ",", "m", "x">>, <<"O", "r", ",", "M", "x">>,
     <<"q", ",", "m">>, <<"z", ",", "q">>, <<"z", ",", "m", ",", "x">>}

Body(model, messages, system, tools, thinking, user_id) ==
    [model |-> model, messages |-> messages, system |-> system, tools |-> tools,
     thinking |-> thinking, metadata |-> [user_id |-> user_id]]
Req(body) == [body |-> body, sessionId |-> Empty, tokenCount |-> -1]

RuleRequests ==
    {Req(Body(m, msgs, sys, tools, th, u)) :
        m \in {ModelPlain, ModelHaiku, ModelPairHaiku},
        msgs \in {MsgsTiny, Msgs2, Msgs6, Msgs7},
        sys \in {SysNone, SysTag},
        tools \in {<< >>, ToolsWeb},
        th \in BOOLEAN,
        u \in UserIds}
ExplicitRequests ==
    {Req(Body(m, MsgsTiny, SysNone, << >>, FALSE, u)) : m \in ModelNames, u \in UserIds}
SystemRequests ==
    {Req(Body(ModelPlain, msgs, sys, ToolsPlain, FALSE, <<"u", "x">>)) :
        msgs \in {MsgsTiny, MsgsSpecial}, sys \in Systems}
SessionRequests ==
    {Req(Body(ModelPlain, MsgsTiny, SysNone, << >>, FALSE, u)) : u \in OddUserIds}
Requests == RuleRequests \cup ExplicitRequests \cup SystemRequests \cup SessionRequests

CustomOutcomes ==
    {[kind |-> "loadFails", value |-> Empty],
     [kind |-> "throws", value |-> Empty],
     [kind |-> "value", value |-> Empty],
     [kind |-> "value", value |-> <<"c", ",", "u">>]}
NoCustom == [kind |-> "none", value |-> Empty]
Envs(cfg) ==
    IF cfg.CUSTOM_ROUTER_PATH = Empty THEN {[custom |-> NoCustom]}
    ELSE {[custom |-> c] : c \in CustomOutcomes}

Usages ==
    {[present |-> TRUE, input_tokens |-> 100, output_tokens |-> 5],
     [present |-> TRUE, input_tokens |-> 7 * FillerTokens, output_tokens |-> 5]}

(***************************************************************************)
(* SSEParserTransform (SSEParser.transform.ts).  The body is a sequence of *)
(* bytes; a byte is written as the character it encodes, a field name      *)
(* ("event" "data" "id" "retry") and the terminator token "[DONE]" being   *)
(* one symbol each, "LF" "CR" " " the line feed, carriage return and       *)
(* space, and "C3" "A9" the two bytes of the UTF-8 encoding of the         *)
(* character written "e'".  "EFBFBD" is the encoding of U+FFFD.            *)
(*   event   [event, data, id, retry], each [set, value]; a field that is  *)
(*           not set is not a key of the object                            *)
(*   data    [kind, text]: kind "json" (text: the members of the parsed    *)
(*           object), "done" ({type: "done"}) or "error" ({raw, error},    *)
(*           text: raw)                                                    *)
(***************************************************************************)
LF == <<"LF">>
Whitespace == {" ", "CR", "LF"}
REPLACEMENT == "FFFD"

\* new TextDecoder().decode(chunk): a decoder made for the chunk alone, so a
\* sequence cut by the end or the start of the chunk decodes to U+FFFD
RECURSIVE decode(_)
decode(chunk) ==
    IF chunk = << >> THEN << >>
    ELSE IF Head(chunk) = "C3"
    THEN IF Len(chunk) >= 2 /\ chunk[2] = "A9"
         THEN <<"e'">> \o decode(SubSeq(chunk, 3, Len(chunk)))
         ELSE <<REPLACEMENT>> \o decode(Tail(chunk))
    ELSE IF Head(chunk) = "A9"
    THEN <<REPLACEMENT>> \o decode(Tail(chunk))
    ELSE IF Head(chunk) = "EFBFBD"
    THEN <<REPLACEMENT>> \o decode(Tail(chunk))
    ELSE <<Head(chunk)>> \o decode(Tail(chunk))

\* String.prototype.trim
RECURSIVE trimStart(_)
trimStart(s) ==
    IF s # << >> /\ Head(s) \in Whitespace THEN trimStart(Tail(s)) ELSE s

RECURSIVE trimEnd(_)
trimEnd(s) ==
    IF s # << >> /\ s[Len(s)] \in Whitespace THEN trimEnd(SubSeq(s, 1, Len(s) - 1)) ELSE s

trim(s) == trimEnd(trimStart(s))

\* line.slice(n), n the length of the prefix
slice(line, prefix) == SubSeq(line, Len(prefix) + 1, Len(line))

NotSet == [set |-> FALSE, value |-> << >>]
SetTo(v) == [set |-> TRUE, value |-> v]
NoEvent == [event |-> NotSet, data |-> NotSet, id |-> NotSet, retry |-> NotSet]

\* Object.keys(event).length
keys(e) == Cardinality({k \in {"event", "data", "id", "retry"} : e[k].set})

withoutWhitespace(s) == SelectSeq(s, LAMBDA c : c \notin Whitespace)

\* JSON.parse(data) returns: data is an object, "{" members "}"
jsonParses(data) ==
    /\ Len(data) >= 2
    /\ data[1] = "{"
    /\ data[Len(data)] = "}"
    /\ \A i \in 2..(Len(data) - 1) : data[i] \notin {"{", "}", "[DONE]"}

JSONparse(data) ==
    [kind |-> "json", text |-> withoutWhitespace(SubSeq(data, 2, Len(data) - 1))]

Digits == {"1", "3"}

RECURSIVE leadingDigits(_)
leadingDigits(s) ==
    IF s # << >> /\ Head(s) \in Digits THEN <<Head(s)>> \o leadingDigits(Tail(s)) ELSE << >>

\* parseInt(text, 10)
parseInt(s) == IF leadingDigits(s) = << >> THEN <<"NaN">> ELSE leadingDigits(s)

\* dataOf keeping the text of a malformed payload as the payload, untagged
dataOf_Untagged(data) ==
    IF data = <<"[DONE]">> THEN [kind |-> "done", text |-> << >>]
    ELSE IF jsonParses(data) THEN JSONparse(data)
    ELSE [kind |-> "json", text |-> data]

\* the payload of a data: line, lines 73-82
dataOf(data) ==
    IF data = <<"[DONE]">> THEN [kind |-> "done", text |-> << >>]
    ELSE IF jsonParses(data) THEN JSONparse(data)
    ELSE [kind |-> "error", text |-> data]

\* processLine, lines 56-89: [currentEvent, events], events the event it
\* returns or pushes, if any
processLine(current, line) ==
    IF trim(line) = << >>
    THEN IF keys(current) > 0
         THEN [currentEvent |-> NoEvent, events |-> <<current>>]
         ELSE [currentEvent |-> current, events |-> << >>]
    ELSE IF startsWith(line, <<"event", ":">>)
    THEN [currentEvent |-> [current EXCEPT !.event = SetTo(trim(slice(line, <<"event", ":">>)))],
          events |-> << >>]
    ELSE IF startsWith(line, <<"data", ":">>)
    THEN [currentEvent |->
              [current EXCEPT !.data = SetTo(dataOf(trim(slice(line, <<"data", ":">>))))],
          events |-> << >>]
    ELSE IF startsWith(line, <<"id", ":">>)
    THEN [currentEvent |-> [current EXCEPT !.id = SetTo(trim(slice(line, <<"id", ":">>)))],
          events |-> << >>]
    ELSE IF startsWith(line, <<"retry", ":">>)
    THEN [currentEvent |->
              [current EXCEPT !.retry = SetTo(parseInt(trim(slice(line, <<"retry", ":">>))))],
          events |-> << >>]
    ELSE [currentEvent |-> current, events |-> << >>]

\* the loop of lines 27-32 over the complete lines: [currentEvent, events]
RECURSIVE processLines(_, _, _)
processLines(current, lines, events) ==
    IF lines = << >> THEN [currentEvent |-> current, events |-> events]
    ELSE processLines(processLine(current, Head(lines)).currentEvent,
                      Tail(lines),
                      events \o processLine(current, Head(lines)).events)

\* transform, lines 18-33: [buffer, currentEvent, events]
transformLines(current, lines) ==
    [buffer |-> pop(lines),
     currentEvent |-> processLines(current, SubSeq(lines, 1, Len(lines) - 1), << >>).currentEvent,
     events |-> processLines(current, SubSeq(lines, 1, Len(lines) - 1), << >>).events]

transform(buf, current, chunk) == transformLines(current, split(buf \o decode(chunk), LF))

\* flush, lines 34-46: the events it enqueues
flushRest(current) == IF keys(current) > 0 THEN <<current>> ELSE << >>

\* flush that forgets the partial line left in the buffer
flush_BufferDropped(buf, current) == flushRest(current)

flush(buf, current) ==
    IF trim(buf) # << >>
    THEN processLine(current, trim(buf)).events
         \o flushRest(processLine(current, trim(buf)).currentEvent)
    ELSE flushRest(current)

(***************************************************************************)
(* The agent tool interceptor (processCheck.ts) over rewriteStream         *)
(* (rewriteStream.ts).                                                     *)
(*   event       [event, data]: a parsed SSE event; data is                *)
(*               [set, type, index, content_block |-> [set, name, id],     *)
(*                delta |-> [set, type, partial_json]]; an absent index is *)
(*               -1, an absent name "", partial_json a string of symbols   *)
(*   state       AgentToolState, currentAgent being the agent's name       *)
(*   controller  the ReadableStreamDefaultController of the stream that    *)
(*               rewriteStream returns: [state, error, queue,              *)
(*               closeRequested], queue holding the chunks not yet read    *)
(*   error       [name, code] of a thrown value                            *)
(***************************************************************************)
NoBlock == [set |-> FALSE, name |-> "", id |-> ""]
NoDelta == [set |-> FALSE, type |-> "", partial_json |-> << >>]
NoData == [set |-> FALSE, type |-> "", index |-> -1, content_block |-> NoBlock, delta |-> NoDelta]
NoError == [name |-> "", code |-> ""]
TypeError == [name |-> "TypeError", code |-> ""]
AbortError == [name |-> "AbortError", code |-> ""]
PrematureClose == [name |-> "Error", code |-> "ERR_STREAM_PREMATURE_CLOSE"]
OtherError == [name |-> "Error", code |-> "ECONNRESET"]
\* the end of a body that stops sending data and is never ended
Stalled == [name |-> "", code |-> "stalled"]

\* agentsManager: the tools each registered agent has
agentTools == [image |-> {"analyzeImage"}]
getAgentOf(agents, toolName) ==
    IF \E i \in 1..Len(agents) : toolName \in agentTools[agents[i]]
    THEN agents[CHOOSE i \in 1..Len(agents) :
                   /\ toolName \in agentTools[agents[i]]
                   /\ \A j \in 1..(i - 1) : toolName \notin agentTools[agents[j]]]
    ELSE ""

createAgentToolState ==
    [currentAgent |-> "", currentToolIndex |-> -1, currentToolName |-> "",
     currentToolArgs |-> << >>, currentToolId |-> "",
     toolMessages |-> << >>, assistantMessages |-> << >>]

resetToolState(state) ==
    [state EXCEPT !.currentAgent = "", !.currentToolIndex = -1, !.currentToolName = "",
                  !.currentToolArgs = << >>, !.currentToolId = ""]

\* [hit, state]
detectToolCallStart(data, state, agents) ==
    IF /\ data.event = "content_block_start"
       /\ data.data.set
       /\ data.data.content_block.set
       /\ data.data.content_block.name # ""
       /\ getAgentOf(agents, data.data.content_block.name) # ""
    THEN [hit |-> TRUE,
          state |-> [state EXCEPT
                       !.currentAgent = getAgentOf(agents, data.data.content_block.name),
                       !.currentToolIndex = data.data.index,
                       !.currentToolName = data.data.content_block.name,
                       !.currentToolId = data.data.content_block.id]]
    ELSE [hit |-> FALSE, state |-> state]

\* data.data.index of an event without data: a TypeError
readsIndexOfNothing(data, state) ==
    state.currentToolIndex > -1 /\ ~data.data.set

\* collectToolArguments keeping the last fragment only
collectToolArguments_LastFragment(data, state) ==
    IF /\ state.currentToolIndex > -1
       /\ data.data.index = state.currentToolIndex
       /\ data.data.delta.set
       /\ data.data.delta.type = "input_json_delta"
    THEN [hit |-> TRUE,
          state |-> [state EXCEPT !.currentToolArgs = data.data.delta.partial_json]]
    ELSE [hit |-> FALSE, state |-> state]

\* [hit, state]
collectToolArguments(data, state) ==
    IF /\ state.currentToolIndex > -1
       /\ data.data.index = state.currentToolIndex
       /\ data.data.delta.set
       /\ data.data.delta.type = "input_json_delta"
    THEN [hit |-> TRUE,
          state |-> [state EXCEPT
                       !.currentToolArgs = state.currentToolArgs \o data.data.delta.partial_json]]
    ELSE [hit |-> FALSE, state |-> state]

\* JSON5.parse of the accumulated arguments succeeds: one object, "{" members "}"
JSON5parses(text) ==
    /\ Len(text) >= 2
    /\ text[1] = "{"
    /\ text[Len(text)] = "}"
    /\ \A i \in 2..(Len(text) - 1) : text[i] \notin {"{", "}"}

toolUse(state) ==
    [type |-> "tool_use", id |-> state.currentToolId, name |-> state.currentToolName,
     input |-> state.currentToolArgs]
toolResult(state) ==
    [type |-> "tool_result", tool_use_id |-> state.currentToolId,
     content |-> <<"result", "of">> \o state.currentToolArgs]

\* executeAgentTool resetting the tool state only when the tool succeeded
executeAgentTool_ResetOnSuccess(data, state, handler) ==
    IF /\ state.currentToolIndex > -1
       /\ data.data.index = state.currentToolIndex
       /\ data.data.type = "content_block_stop"
    THEN IF ~JSON5parses(state.currentToolArgs)
         THEN [hit |-> TRUE, state |-> state,
               log |-> <<[what |-> "tool", id |-> state.currentToolId, why |-> "parse"]>>]
         ELSE IF handler = "throws"
         THEN [hit |-> TRUE,
               state |-> [state EXCEPT !.assistantMessages = Append(@, toolUse(state))],
               log |-> <<[what |-> "tool", id |-> state.currentToolId, why |-> "handler"]>>]
         ELSE [hit |-> TRUE,
               state |-> resetToolState(
                   [state EXCEPT !.assistantMessages = Append(@, toolUse(state)),
                                 !.toolMessages = Append(@, toolResult(state))]),
               log |-> << >>]
    ELSE [hit |-> FALSE, state |-> state, log |-> << >>]

\* [hit, state, log]; handler is what the tool handler does: "returns" or "throws"
executeAgentTool(data, state, handler) ==
    IF /\ state.currentToolIndex > -1
       /\ data.data.index = state.currentToolIndex
       /\ data.data.type = "content_block_stop"
    THEN IF ~JSON5parses(state.currentToolArgs)
         THEN [hit |-> TRUE, state |-> resetToolState(state),
               log |-> <<[what |-> "tool", id |-> state.currentToolId, why |-> "parse"]>>]
         ELSE IF handler = "throws"
         THEN [hit |-> TRUE,
               state |-> resetToolState(
                   [state EXCEPT !.assistantMessages = Append(@, toolUse(state))]),
               log |-> <<[what |-> "tool", id |-> state.currentToolId, why |-> "handler"]>>]
         ELSE [hit |-> TRUE,
               state |-> resetToolState(
                   [state EXCEPT !.assistantMessages = Append(@, toolUse(state)),
                                 !.toolMessages = Append(@, toolResult(state))]),
               log |-> << >>]
    ELSE [hit |-> FALSE, state |-> state, log |-> << >>]

\* the two entries fetchToolResponse pushes on routerReq.body.messages
toolEntries(state) ==
    <<[role |-> "assistant", content |-> state.assistantMessages],
      [role |-> "user", content |-> state.toolMessages]>>

\* the callback of createAgentStreamProcessor up to its first await of the
\* network: [kind, state, log], kind being "undefined" (nothing to push),
\* "data" (the event is passed on), "fetch" (fetchToolResponse is entered)
\* or "throw" (the callback rejects with a TypeError)
createAgentStreamProcessor(data, state, agents, handler) ==
    IF detectToolCallStart(data, state, agents).hit
    THEN [kind |-> "undefined", state |-> detectToolCallStart(data, state, agents).state,
          log |-> << >>]
    ELSE IF readsIndexOfNothing(data, state)
    THEN [kind |-> "throw", state |-> state, log |-> << >>]
    ELSE IF collectToolArguments(data, state).hit
    THEN [kind |-> "undefined", state |-> collectToolArguments(data, state).state,
          log |-> << >>]
    ELSE IF executeAgentTool(data, state, handler).hit
    THEN [kind |-> "undefined", state |-> executeAgentTool(data, state, handler).state,
          log |-> executeAgentTool(data, state, handler).log]
    ELSE IF data.event = "message_delta" /\ Len(state.toolMessages) > 0
    THEN [kind |-> "fetch", state |-> state, log |-> << >>]
    ELSE [kind |-> "data", state |-> state, log |-> << >>]

\* the catch of the callback: what it does with a thrown value
processorSwallows(e) == e.code = "ERR_STREAM_PREMATURE_CLOSE"

\* the cancellation class of pipeResponseToController
isCancellation(e) ==
    e.name = "AbortError" \/ e.code = "ERR_STREAM_PREMATURE_CLOSE"

(***************************************************************************)
(* ReadableStreamDefaultController of a stream built without a strategy.   *)
(***************************************************************************)
HIGH_WATER_MARK == 1
NewController == [state |-> "readable", error |-> NoError, queue |-> << >>, closeRequested |-> FALSE]
canCloseOrEnqueue(c) == c.state = "readable" /\ ~c.closeRequested
\* null (errored) is written 0: both are falsy in the one test the code makes
desiredSize(c) ==
    IF c.state = "readable" THEN HIGH_WATER_MARK - Len(c.queue) ELSE 0
enqueue(c, chunk) == [c EXCEPT !.queue = Append(@, chunk)]
close(c) ==
    IF c.queue = << >> THEN [c EXCEPT !.state = "closed"] ELSE [c EXCEPT !.closeRequested = TRUE]
error(c, e) ==
    IF c.state = "readable"
    THEN [c EXCEPT !.state = "errored", !.error = e, !.queue = << >>]
    ELSE c
\* the consumer reads the first chunk of the queue
readChunk(c) ==
    IF Len(c.queue) = 1 /\ c.closeRequested
    THEN [c EXCEPT !.queue = << >>, !.state = "closed"]
    ELSE [c EXCEPT !.queue = Tail(@)]
\* the consumer cancels the stream
cancel(c) == [c EXCEPT !.state = "closed", !.queue = << >>]

\* fetchToolResponse from its first line to the call of pipeResponseToController;
\* f is what the network does: [kind |-> "network" | "timeout" | "status" | "ok",
\* response]: [messages, request, piping, response, threw, log]
fetchToolResponse(msgs, state, f) ==
    [messages |-> msgs \o toolEntries(state),
     request |-> [messages |-> msgs \o toolEntries(state)],
     piping |-> f.kind = "ok",
     response |-> f.response,
     threw |-> IF f.kind = "network" THEN OtherError
               ELSE IF f.kind = "timeout" THEN AbortError ELSE NoError,
     log |-> IF f.kind = "status" THEN <<[what |-> "fetch", id |-> "", why |-> "status"]>>
             ELSE << >>]

\* pipeResponseToController forwarding the envelope events as well
pipeResponseToController_ForwardAll(resp, c, abortedBefore) ==
    IF resp.events = << >>
    THEN IF resp.end = NoError
         THEN [piping |-> FALSE, response |-> resp, controller |-> c,
               aborted |-> abortedBefore, threw |-> NoError, log |-> << >>]
         ELSE IF isCancellation(resp.end)
         THEN [piping |-> FALSE, response |-> resp, controller |-> c,
               aborted |-> TRUE, threw |-> NoError, log |-> << >>]
         ELSE [piping |-> FALSE, response |-> resp, controller |-> c,
               aborted |-> abortedBefore, threw |-> resp.end, log |-> << >>]
    ELSE IF desiredSize(c) = 0
    THEN [piping |-> FALSE, response |-> [resp EXCEPT !.events = Tail(@)], controller |-> c,
          aborted |-> abortedBefore, threw |-> NoError, log |-> << >>]
    ELSE IF ~canCloseOrEnqueue(c)
    THEN [piping |-> FALSE, response |-> [resp EXCEPT !.events = Tail(@)], controller |-> c,
          aborted |-> abortedBefore, threw |-> TypeError, log |-> << >>]
    ELSE [piping |-> TRUE, response |-> [resp EXCEPT !.events = Tail(@)],
          controller |-> enqueue(c, Head(resp.events)),
          aborted |-> abortedBefore, threw |-> NoError, log |-> << >>]

\* one turn of the loop of pipeResponseToController:
\* [piping, response, controller, aborted, threw, log]
pipeResponseToController(resp, c, abortedBefore) ==
    IF resp.events = << >>
    THEN IF resp.end = NoError
         THEN [piping |-> FALSE, response |-> resp, controller |-> c,
               aborted |-> abortedBefore, threw |-> NoError, log |-> << >>]
         ELSE IF isCancellation(resp.end)
         THEN [piping |-> FALSE, response |-> resp, controller |-> c,
               aborted |-> TRUE, threw |-> NoError, log |-> << >>]
         ELSE [piping |-> FALSE, response |-> resp, controller |-> c,
               aborted |-> abortedBefore, threw |-> resp.end, log |-> << >>]
    ELSE IF Head(resp.events).event \in {"message_start", "message_stop"}
    THEN [piping |-> TRUE, response |-> [resp EXCEPT !.events = Tail(@)], controller |-> c,
          aborted |-> abortedBefore, threw |-> NoError, log |-> << >>]
    ELSE IF desiredSize(c) = 0
    THEN [piping |-> FALSE, response |-> [resp EXCEPT !.events = Tail(@)], controller |-> c,
          aborted |-> abortedBefore, threw |-> NoError, log |-> << >>]
    ELSE IF ~canCloseOrEnqueue(c)
    THEN [piping |-> FALSE, response |-> [resp EXCEPT !.events = Tail(@)], controller |-> c,
          aborted |-> abortedBefore, threw |-> TypeError, log |-> << >>]
    ELSE [piping |-> TRUE, response |-> [resp EXCEPT !.events = Tail(@)],
          controller |-> enqueue(c, Head(resp.events)),
          aborted |-> abortedBefore, threw |-> NoError, log |-> << >>]

\* fetchToolResponse without its catch
catchFetchError_Rethrow(r) == r

\* the catch of fetchToolResponse, on what its try block did (r.threw, r.piping, r.log)
catchFetchError(r) ==
    IF r.threw = NoError THEN r
    ELSE [r EXCEPT !.threw = NoError, !.piping = FALSE,
                   !.log = @ \o <<[what |-> "fetch", id |-> "",
                                   why |-> IF r.threw.name = "AbortError" THEN "timeout"
                                           ELSE "error"]>>]

\* the catch of the callback and the catch of rewriteStream, on an error that
\* escaped the callback's try block: [controller, apc, aborted, log]
catchUnexpected(c, abortedBefore, e) ==
    IF processorSwallows(e)
    THEN [controller |-> c, apc |-> "read", aborted |-> TRUE,
          log |-> <<[what |-> "unexpected", id |-> "", why |-> e.name]>>]
    ELSE [controller |-> error(c, e), apc |-> "released", aborted |-> abortedBefore,
          log |-> <<[what |-> "unexpected", id |-> "", why |-> e.name]>>]

\* no response stream being rewritten
NoSource == [events |-> << >>, end |-> NoError]
NoResponse == [events |-> << >>, end |-> NoError]
AgentIdle ==
    /\ scenario = NoSource
    /\ source = NoSource
    /\ apc = "idle"
    /\ toolState = createAgentToolState
    /\ reqMessages = << >>
    /\ fetches = << >>
    /\ response = NoResponse
    /\ controller = NewController
    /\ delivered = << >>
    /\ aborted = FALSE
    /\ log = << >>
    /\ timeoutId = "none"
    /\ connection = "none"

\* no call of searchProjectBySession in progress
Tasks == 1..MaxTasks
LookupSessions == {<<"s1">>, <<"s2">>}
NoLookup == [pc |-> "idle", sessionId |-> Empty, project |-> Empty, calls |-> 0]
LookupIdle ==
    /\ lookups = [t \in Tasks |-> NoLookup]
    /\ scans = [s \in LookupSessions |-> 0]

(***************************************************************************)
(* ImageCache (agents/image.agent.ts): an LRUCache with max and ttl.  An   *)
(* entry is [key, value, start], start being the time of its set; the      *)
(* sequence runs from the least to the most recently used.  An entry is    *)
(* stale when its age exceeds the ttl: has answers false for it, get       *)
(* deletes it and answers undefined; neither has nor get renews the age.   *)
(***************************************************************************)
IMAGE_TTL == 300000
isStale(entry, time) == time - entry.start > IMAGE_TTL

ttlHas(cache, k, time) ==
    LruHas(cache, k) /\ ~isStale(cache[LruIndex(cache, k)], time)

\* [found, value, cache]
ttlGet(cache, k, time) ==
    IF ~LruHas(cache, k)
    THEN [found |-> FALSE, value |-> Empty, cache |-> cache]
    ELSE IF isStale(cache[LruIndex(cache, k)], time)
    THEN [found |-> FALSE, value |-> Empty, cache |-> LruWithout(cache, k)]
    ELSE [found |-> TRUE, value |-> LruValue(cache, k),
          cache |-> LruWithout(cache, k) \o <<cache[LruIndex(cache, k)]>>]

ttlSet(cache, k, v, time, max) ==
    LET put == LruWithout(cache, k) \o <<[key |-> k, value |-> v, start |-> time]>>
    IN  IF Len(put) > max THEN Tail(put) ELSE put

hasImage(cache, id, time) == ttlHas(cache, id, time)

storeImage(cache, id, imageSource, time, max) ==
    IF hasImage(cache, id, time) THEN cache
    ELSE ttlSet(cache, id, imageSource, time, max)

\* [source, cache]; source = Empty is null
getImage(cache, id, time) ==
    [source |-> IF ttlGet(cache, id, time).found THEN ttlGet(cache, id, time).value
                ELSE Empty,
     cache |-> ttlGet(cache, id, time).cache]

\* the image cache is empty and nothing was asked of it
NoAnswer == [op |-> "none", id |-> "", source |-> Empty, evicted |-> {}, age |-> -1]
ImageIdle ==
    /\ imageCache = << >>
    /\ now = 0
    /\ uses = << >>
    /\ answer = NoAnswer

\* no process changes the reference count
NoLock == [exists |-> FALSE, mtime |-> 0]
NoFile == [exists |-> FALSE, value |-> 0]
NumProcs == 2
Procs == 1..NumProcs
IdleProc == [pc |-> "idle", op |-> "", retry |-> 0, count |-> 0, result |-> ""]
RefIdle ==
    /\ lockFile = NoLock
    /\ countFile = NoFile
    /\ countFile0 = NoFile
    /\ procs = [i \in Procs |-> IdleProc]
    /\ clock = 0

MoreIdle ==
    /\ LookupIdle
    /\ ImageIdle
    /\ RefIdle

\* no body being parsed
ParserIdle ==
    /\ bytes = << >>
    /\ consumed = 0
    /\ buffer = << >>
    /\ currentEvent = NoEvent
    /\ enqueued = << >>
    /\ flushed = FALSE

(***************************************************************************)
(* The onSend hook (server.ts) and trackStreamUsage (processCheck.ts).     *)
(*   payload [kind |-> "json" | "stream", agents, chunks]: agents stands   *)
(*           for routerReq.agents, which the preHandler hook sets before   *)
(*           router and which only onSend reads; chunks are the chunks of  *)
(*           a streaming payload, each a string of symbols                 *)
(***************************************************************************)
MESSAGE_DELTA_PREFIX == <<"event", ":", " ", "message_delta">>
\* the 27 characters before the JSON text of a message_delta event
DeltaHead == MESSAGE_DELTA_PREFIX \o LF \o <<"data", ":", " ">>

\* what one chunk makes trackStreamUsage put: << >>, or the usage member
chunkUsage(chunk) ==
    IF ~startsWith(decode(chunk), MESSAGE_DELTA_PREFIX) THEN << >>
    ELSE IF ~jsonParses(trim(slice(decode(chunk), DeltaHead))) THEN << >>
    ELSE IF \E i \in 1..Len(chunk) : chunk[i] = "usage" THEN <<"usage">>
    ELSE <<"undefined">>

\* the values trackStreamUsage puts, in order
RECURSIVE trackStreamUsage(_)
trackStreamUsage(chunks) ==
    IF chunks = << >> THEN << >>
    ELSE chunkUsage(Head(chunks)) \o trackStreamUsage(Tail(chunks))

shouldProcessRequest(r) == r.sessionId # Empty

\* the values the onSend hook puts for the session, in order
onSend(r, payload) ==
    IF ~shouldProcessRequest(r) THEN << >>
    ELSE IF payload.kind = "stream"
    THEN IF payload.agents THEN << >> ELSE trackStreamUsage(payload.chunks)
    ELSE <<"usage">>

\* what the onSend hook hands to done: the payload as it is ("payload"), one
\* branch of its tee ("tee"), or the stream of processAgentStream
\* ("intercepted")
onSendReply(r, payload) ==
    IF ~shouldProcessRequest(r) THEN "payload"
    ELSE IF payload.kind = "stream"
    THEN IF payload.agents THEN "intercepted" ELSE "tee"
    ELSE "payload"

\* sessionUsageCache after the puts
RECURSIVE putAll(_, _, _, _)
putAll(cache, sessionId, puts, usage) ==
    IF puts = << >> THEN cache
    ELSE putAll(LruSet(cache, sessionId,
                       IF Head(puts) = "usage" THEN usage ELSE NoUsage, UsageCacheMax),
                sessionId, Tail(puts), usage)

\* the payloads: a JSON body, or a stream of three events cut into chunks
EventText(name, member) ==
    <<"event", ":", " ", name>> \o LF \o <<"data", ":", " ", "{", member, "}">> \o LF \o LF
StartText == EventText("message_start", "message")
DeltaText == EventText("message_delta", "usage")
StopText == EventText("message_stop", "type")
Chunkings ==
    {<<StartText, DeltaText, StopText>>,
     <<StartText \o DeltaText, StopText>>,
     <<StartText, DeltaText \o StopText>>}
Payloads ==
    {[kind |-> "json", agents |-> FALSE, chunks |-> << >>]}
    \cup {[kind |-> "stream", agents |-> FALSE, chunks |-> c] : c \in Chunkings}
    \cup {[kind |-> "stream", agents |-> TRUE, chunks |-> <<StartText, DeltaText, StopText>>]}
NoTurn == [sessionId |-> Empty, usage |-> NoUsage, kind |-> "", agents |-> FALSE, sent |-> ""]

(***************************************************************************)
(* The state machine: a request is received, routed by the preHandler      *)
(* hook, and answered; the onSend hook records the usage of the answer.    *)
(***************************************************************************)
NoReq == Req(Body(Empty, << >>, SysNone, << >>, FALSE, Empty))
NoEnv == [custom |-> NoCustom]
NoOut ==
    [outcome |-> "none", rule |-> "none", scope |-> "none", customInvoked |-> FALSE,
     builtinInvoked |-> FALSE, tokenCount |-> 0, counted |-> FALSE,
     lastUsage |-> NoUsage, errors |-> 0]

Init ==
    /\ \E d \in Deployments : config = d.config /\ fs = d.fs
    /\ sessionProjectCache = << >>
    /\ sessionUsageCache = << >>
    /\ pc = "idle"
    /\ req = NoReq
    /\ req0 = NoReq
    /\ env = NoEnv
    /\ out = NoOut
    /\ lastTurn = NoTurn
    /\ ParserIdle
    /\ AgentIdle
    /\ MoreIdle

Receive(r, e) ==
    /\ pc = "idle"
    /\ pc' = "pending"
    /\ req' = r
    /\ req0' = r
    /\ env' = e
    /\ lastTurn' = NoTurn
    /\ UNCHANGED <<config, fs, sessionProjectCache, sessionUsageCache, out, parserVars, agentVars,
                   moreVars>>

Route ==
    /\ pc = "pending"
    /\ LET done == router(req, config, env, sessionProjectCache, sessionUsageCache, fs)
       IN  /\ req' = done.req
           /\ sessionProjectCache' = done.projectCache
           /\ sessionUsageCache' = done.usageCache
           /\ out' = [outcome |-> done.outcome, rule |-> done.rule, scope |-> done.scope,
                      customInvoked |-> done.customInvoked,
                      builtinInvoked |-> done.builtinInvoked,
                      tokenCount |-> done.tokenCount, counted |-> done.counted,
                      lastUsage |-> done.lastUsage, errors |-> done.errors]
    /\ pc' = "routed"
    /\ UNCHANGED <<config, fs, req0, env, lastTurn, parserVars, agentVars, moreVars>>

\* the turn is answered with the given usage: the onSend hook
Complete(usage, payload) ==
    /\ pc = "routed"
    /\ out.outcome = "returned"
    /\ sessionUsageCache' =
          putAll(sessionUsageCache, req.sessionId, onSend(req, payload), usage)
    /\ lastTurn' = [sessionId |-> req.sessionId,
                    usage |-> IF shouldProcessRequest(req) THEN usage ELSE NoUsage,
                    kind |-> payload.kind,
                    agents |-> payload.agents,
                    sent |-> onSendReply(req, payload)]
    /\ pc' = "idle"
    /\ req' = NoReq
    /\ req0' = NoReq
    /\ env' = NoEnv
    /\ out' = NoOut
    /\ UNCHANGED <<config, fs, sessionProjectCache, parserVars, agentVars, moreVars>>

\* the preHandler hook rejected: the request is answered with the error
Fail ==
    /\ pc = "routed"
    /\ out.outcome = "threw"
    /\ pc' = "idle"
    /\ req' = NoReq
    /\ req0' = NoReq
    /\ env' = NoEnv
    /\ out' = NoOut
    /\ UNCHANGED <<config, fs, sessionProjectCache, sessionUsageCache, lastTurn, parserVars, agentVars, moreVars>>

Next ==
    \/ \E r \in Requests, e \in Envs(config) : Receive(r, e)
    \/ Route
    \/ \E usage \in Usages, payload \in Payloads : Complete(usage, payload)
    \/ Fail

Spec == Init /\ [][Next]_vars

(***************************************************************************)
(* SSESerializerTransform, as the specification describes it: "event: "    *)
(* and the name on a line when a name is present, then "data: " and the    *)
(* payload as JSON, or the terminator token for the stream-terminated      *)
(* sentinel, then a blank line.                                            *)
(***************************************************************************)
stringify(d) ==
    IF d.kind = "done" THEN <<"[DONE]">> ELSE <<"{">> \o d.text \o <<"}">>

serialize(e) ==
    (IF e.event.set THEN <<"event", ":", " ">> \o e.event.value \o LF ELSE << >>)
    \o <<"data", ":", " ">> \o stringify(e.data.value) \o LF \o LF

RECURSIVE serializeAll(_)
serializeAll(events) ==
    IF events = << >> THEN << >> ELSE serialize(Head(events)) \o serializeAll(Tail(events))

\* TextEncoder.encode
RECURSIVE encode(_)
encode(text) ==
    IF text = << >> THEN << >>
    ELSE IF Head(text) = "e'" THEN <<"C3", "A9">> \o encode(Tail(text))
    ELSE IF Head(text) = REPLACEMENT THEN <<"EFBFBD">> \o encode(Tail(text))
    ELSE <<Head(text)>> \o encode(Tail(text))

(***************************************************************************)
(* The response bodies the parser is fed: up to MaxBlocks blocks of lines, *)
(* each line ended by a line feed and each block by a blank line, the last *)
(* block ending with its blank line ("block"), with the line feed of its   *)
(* last line ("line") or inside its last line ("cut").                     *)
(***************************************************************************)
EventLine == <<"event", ":", " ", "a">>
JsonLine == <<"data", ":", " ", "{", "k", " ", "C3", "A9", "}">>
DoneLine == <<"data", ":", " ", "[DONE]", "CR">>
BadLine == <<"data", ":", "{", "k">>
IdLine == <<"id", ":", "1">>
RetryLine == <<"retry", ":", " ", "3", "x">>
CommentLine == <<":", "c">>
SpaceLine == <<" ">>

WellFormedBlocks == {<<EventLine, JsonLine>>, <<JsonLine>>, <<DoneLine>>}
Blocks ==
    WellFormedBlocks
    \cup {<<BadLine>>, <<IdLine>>, <<EventLine>>, <<RetryLine, JsonLine>>,
          <<BadLine, JsonLine>>, <<CommentLine>>, <<SpaceLine>>}

RECURSIVE joinLines(_)
joinLines(lines) ==
    IF lines = << >> THEN << >> ELSE Head(lines) \o LF \o joinLines(Tail(lines))

Endings == {"block", "line", "cut"}

lastBlockBytes(block, ending) ==
    IF ending = "block" THEN joinLines(block) \o LF
    ELSE IF ending = "line" THEN joinLines(block)
    ELSE SubSeq(joinLines(block), 1, Len(joinLines(block)) - 1)

RECURSIVE streamBytes(_, _)
streamBytes(blocks, ending) ==
    IF Len(blocks) = 1 THEN lastBlockBytes(blocks[1], ending)
    ELSE joinLines(Head(blocks)) \o LF \o streamBytes(Tail(blocks), ending)

BlockSeqs == UNION {[1..n -> Blocks] : n \in 1..MaxBlocks}
Streams == {streamBytes(b, e) : b \in BlockSeqs, e \in Endings}

\* no request in flight, one deployment
RouterIdle ==
    /\ config = ConfigOf(RouterOf("g", Tiers, 0), Empty, Empty)
    /\ fs = FsPlain
    /\ sessionProjectCache = << >>
    /\ sessionUsageCache = << >>
    /\ pc = "idle"
    /\ req = NoReq
    /\ req0 = NoReq
    /\ env = NoEnv
    /\ out = NoOut
    /\ lastTurn = NoTurn

(***************************************************************************)
(* The parser at work: the body is written to it in chunks of any sizes,   *)
(* then its writable side is closed.                                       *)
(***************************************************************************)
InitParser ==
    /\ RouterIdle
    /\ AgentIdle
    /\ MoreIdle
    /\ \E b \in Streams : bytes = b
    /\ consumed = 0
    /\ buffer = << >>
    /\ currentEvent = NoEvent
    /\ enqueued = << >>
    /\ flushed = FALSE

\* transform on the next n bytes
Write(n) ==
    /\ ~flushed
    /\ consumed + n <= Len(bytes)
    /\ LET done == transform(buffer, currentEvent, SubSeq(bytes, consumed + 1, consumed + n))
       IN  /\ buffer' = done.buffer
           /\ currentEvent' = done.currentEvent
           /\ enqueued' = enqueued \o done.events
    /\ consumed' = consumed + n
    /\ UNCHANGED <<bytes, flushed, routerVars, agentVars, moreVars>>

\* flush at the end of the body
Close ==
    /\ ~flushed
    /\ consumed = Len(bytes)
    /\ enqueued' = enqueued \o flush(buffer, currentEvent)
    /\ currentEvent' =
          IF trim(buffer) # << >> THEN processLine(currentEvent, trim(buffer)).currentEvent
          ELSE currentEvent
    /\ flushed' = TRUE
    /\ UNCHANGED <<bytes, consumed, buffer, routerVars, agentVars, moreVars>>

NextParser ==
    \/ \E n \in 1..MaxChunk : Write(n)
    \/ Close

SpecParser == InitParser /\ [][NextParser]_vars

(***************************************************************************)
(* The event streams the interceptor is fed: up to MaxSegments segments,   *)
(* each an agent tool call, a text block or one event, the stream ending   *)
(* normally or with its read rejecting.                                    *)
(***************************************************************************)
Event(name, d) == [event |-> name, data |-> d]
DataOf(type, index, block, delta) ==
    [set |-> TRUE, type |-> type, index |-> index, content_block |-> block, delta |-> delta]
ToolStart(i, id) ==
    Event("content_block_start",
          DataOf("content_block_start", i,
                 [set |-> TRUE, name |-> "analyzeImage", id |-> id], NoDelta))
TextStart(i) ==
    Event("content_block_start",
          DataOf("content_block_start", i, [set |-> TRUE, name |-> "", id |-> ""], NoDelta))
ArgsDelta(i, fragment) ==
    Event("content_block_delta",
          DataOf("content_block_delta", i, NoBlock,
                 [set |-> TRUE, type |-> "input_json_delta", partial_json |-> fragment]))
TextDelta(i) ==
    Event("content_block_delta",
          DataOf("content_block_delta", i, NoBlock,
                 [set |-> TRUE, type |-> "text_delta", partial_json |-> << >>]))
BlockStop(i) == Event("content_block_stop", DataOf("content_block_stop", i, NoBlock, NoDelta))
MessageStart == Event("message_start", DataOf("message_start", -1, NoBlock, NoDelta))
MessageDelta == Event("message_delta", DataOf("message_delta", -1, NoBlock, NoDelta))
MessageStop == Event("message_stop", DataOf("message_stop", -1, NoBlock, NoDelta))
Bare == Event("ping", NoData)

GoodCall(i, id) ==
    <<ToolStart(i, id), ArgsDelta(i, <<"{", "q", ":">>), ArgsDelta(i, <<"1", "}">>), BlockStop(i)>>
BadCall(i, id) == <<ToolStart(i, id), ArgsDelta(i, <<"{", "q">>), BlockStop(i)>>
TextBlock(i) == <<TextStart(i), TextDelta(i), BlockStop(i)>>
CutCall(i, id) == <<ToolStart(i, id), ArgsDelta(i, <<"{", "q", ":">>)>>
Segments ==
    {GoodCall(0, "t1"), GoodCall(1, "t2"), BadCall(0, "t0"), CutCall(0, "t3"), TextBlock(0),
     <<MessageDelta>>, <<MessageStop>>, <<Bare>>}
ReadEnds == {NoError, AbortError, PrematureClose, OtherError}
RECURSIVE SegmentSeqs(_)
SegmentSeqs(n) ==
    IF n = 1 THEN Segments
    ELSE SegmentSeqs(n - 1) \cup {s \o t : s \in SegmentSeqs(n - 1), t \in Segments}
EventSeqs == SegmentSeqs(MaxSegments)
Scenarios == {[events |-> s, end |-> e] : s \in EventSeqs, e \in ReadEnds}

Agents == <<"image">>
OriginalMessages == <<[role |-> "user", content |-> <<"look">>]>>
InnerEvents == <<MessageStart, TextDelta(0), MessageDelta, MessageStop>>
FetchOutcomes ==
    {[kind |-> k, response |-> NoResponse] : k \in {"network", "timeout", "status"}}
    \cup {[kind |-> "ok", response |-> [events |-> InnerEvents, end |-> e]] :
             e \in ReadEnds \cup {Stalled}}
Handlers == {"returns", "throws"}

(***************************************************************************)
(* The interceptor at work: rewriteStream pulls the events one by one and  *)
(* hands each to the callback; the consumer of the returned stream reads   *)
(* its chunks at its own pace and may cancel it.                           *)
(***************************************************************************)
InitAgent ==
    /\ RouterIdle
    /\ ParserIdle
    /\ MoreIdle
    /\ \E s \in Scenarios : scenario = s /\ source = s
    /\ apc = "read"
    /\ toolState = createAgentToolState
    /\ reqMessages = OriginalMessages
    /\ fetches = << >>
    /\ response = NoResponse
    /\ controller = NewController
    /\ delivered = << >>
    /\ aborted = FALSE
    /\ log = << >>
    /\ timeoutId = "none"
    /\ connection = "none"

\* rewriteStream enqueueing the returned value twice
pushProcessed_Twice(c, data) ==
    IF canCloseOrEnqueue(c)
    THEN [controller |-> enqueue(enqueue(c, data), data), apc |-> "read"]
    ELSE [controller |-> error(c, TypeError), apc |-> "released"]

\* the callback resolved with a value: rewriteStream enqueues it, or, the
\* stream being closed already, catches the TypeError of enqueue
pushProcessed(c, data) ==
    IF canCloseOrEnqueue(c)
    THEN [controller |-> enqueue(c, data), apc |-> "read"]
    ELSE [controller |-> error(c, TypeError), apc |-> "released"]

\* one turn of the loop of rewriteStream: reader.read() resolves with an
\* event; the callback runs to its end or, entering fetchToolResponse, to the
\* await of fetch, the timer of INTERNAL_FETCH_TIMEOUT_MS set
Pull(handler) ==
    /\ apc = "read"
    /\ source.events # << >>
    /\ source' = [source EXCEPT !.events = Tail(@)]
    /\ LET data == Head(source.events)
           p == createAgentStreamProcessor(data, toolState, Agents, handler)
           caught == catchUnexpected(controller, aborted, TypeError)
       IN  /\ toolState' = p.state
           /\ IF p.kind = "fetch"
              THEN /\ reqMessages' = reqMessages \o toolEntries(toolState)
                   /\ fetches' = Append(fetches, [messages |-> reqMessages \o toolEntries(toolState)])
                   /\ apc' = "fetch"
                   /\ timeoutId' = "pending"
                   /\ connection' = "open"
                   /\ log' = log \o p.log
                   /\ UNCHANGED <<controller, aborted>>
              ELSE /\ UNCHANGED <<reqMessages, fetches, timeoutId, connection>>
                   /\ IF p.kind = "throw"
                      THEN /\ controller' = caught.controller
                           /\ apc' = caught.apc
                           /\ aborted' = caught.aborted
                           /\ log' = log \o p.log \o caught.log
                      ELSE /\ log' = log \o p.log
                           /\ UNCHANGED aborted
                           /\ IF p.kind = "data"
                              THEN /\ controller' = pushProcessed(controller, data).controller
                                   /\ apc' = pushProcessed(controller, data).apc
                              ELSE UNCHANGED <<controller, apc>>
    /\ UNCHANGED <<scenario, response, delivered, routerVars, parserVars, moreVars>>

\* the await of fetch settles, f being what the network did, and
\* fetchToolResponse goes on to the call of pipeResponseToController or to
\* its end: clearTimeout in both cases
Settle(f) ==
    /\ apc = "fetch"
    /\ LET fetched == catchFetchError(fetchToolResponse(reqMessages, toolState, f))
           caught == catchUnexpected(controller, aborted, fetched.threw)
       IN  /\ response' = fetched.response
           /\ IF fetched.threw # NoError
              THEN /\ controller' = caught.controller
                   /\ apc' = caught.apc
                   /\ aborted' = caught.aborted
                   /\ log' = log \o fetched.log \o caught.log
              ELSE /\ apc' = IF fetched.piping THEN "pipe" ELSE "read"
                   /\ log' = log \o fetched.log
                   /\ UNCHANGED <<controller, aborted>>
    /\ timeoutId' = IF f.kind = "timeout" THEN "fired" ELSE "cleared"
    /\ connection' = IF f.kind = "timeout" THEN "aborted"
                     ELSE IF f.kind = "ok" THEN "open" ELSE "closed"
    /\ UNCHANGED <<scenario, source, toolState, reqMessages, fetches, delivered,
                   routerVars, parserVars, moreVars>>

\* the answer's headers arrive, or the request fails, before the timer fires
Respond(f) ==
    /\ f.kind # "timeout"
    /\ Settle(f)

\* the timer set by fetchToolResponse fires: fetchController.abort()
TimeoutFires ==
    /\ timeoutId = "pending"
    /\ Settle([kind |-> "timeout", response |-> NoResponse])

\* reader.read() of the continuation's body never resolves
Blocked == response.events = << >> /\ response.end = Stalled

\* one turn of the loop of pipeResponseToController, inside fetchToolResponse
Pipe ==
    /\ apc = "pipe"
    /\ ~Blocked
    /\ LET turn == catchFetchError(pipeResponseToController(response, controller, aborted))
           caught == catchUnexpected(turn.controller, turn.aborted, turn.threw)
       IN  /\ response' = turn.response
           /\ IF turn.threw # NoError
              THEN /\ controller' = caught.controller
                   /\ apc' = caught.apc
                   /\ aborted' = caught.aborted
                   /\ log' = log \o turn.log \o caught.log
              ELSE /\ controller' = turn.controller
                   /\ aborted' = turn.aborted
                   /\ log' = log \o turn.log
                   /\ apc' = IF turn.piping THEN "pipe" ELSE "read"
    /\ connection' = IF response.events = << >> THEN "closed" ELSE connection
    /\ UNCHANGED <<scenario, source, toolState, reqMessages, fetches, delivered, timeoutId,
                   routerVars, parserVars, moreVars>>

\* reader.read() resolves with done: controller.close(), which throws a
\* TypeError that the catch hands to controller.error when the stream is
\* closed already
EndOfSource ==
    /\ apc = "read"
    /\ source.events = << >>
    /\ source.end = NoError
    /\ controller' =
          IF canCloseOrEnqueue(controller) THEN close(controller)
          ELSE error(controller, TypeError)
    /\ apc' = "released"
    /\ UNCHANGED <<scenario, source, toolState, reqMessages, fetches, response, delivered,
                   aborted, log, timeoutId, connection, routerVars, parserVars, moreVars>>

\* reader.read() rejects: the catch of rewriteStream
ReadFails ==
    /\ apc = "read"
    /\ source.events = << >>
    /\ source.end # NoError
    /\ controller' = error(controller, source.end)
    /\ apc' = "released"
    /\ UNCHANGED <<scenario, source, toolState, reqMessages, fetches, response, delivered,
                   aborted, log, timeoutId, connection, routerVars, parserVars, moreVars>>

\* the consumer reads a chunk
Consume ==
    /\ controller.state = "readable"
    /\ controller.queue # << >>
    /\ delivered' = Append(delivered, Head(controller.queue))
    /\ controller' = readChunk(controller)
    /\ UNCHANGED <<scenario, source, apc, toolState, reqMessages, fetches, response,
                   aborted, log, timeoutId, connection, routerVars, parserVars, moreVars>>

\* the consumer cancels the stream
Cancel ==
    /\ controller.state = "readable"
    /\ controller' = cancel(controller)
    /\ UNCHANGED <<scenario, source, apc, toolState, reqMessages, fetches, response,
                   delivered, aborted, log, timeoutId, connection, routerVars, parserVars,
                   moreVars>>

NextAgent ==
    \/ \E handler \in Handlers : Pull(handler)
    \/ \E f \in FetchOutcomes : Respond(f)
    \/ TimeoutFires
    \/ Pipe
    \/ EndOfSource
    \/ ReadFails
    \/ Consume
    \/ Cancel

SpecAgent == InitAgent /\ [][NextAgent]_vars

(***************************************************************************)
(* searchProjectBySession called by tasks that overlap: a call tests the   *)
(* cache, and on a miss suspends at opendir; the scan and the set of its   *)
(* result happen when it resumes, other calls having run in between.       *)
(***************************************************************************)
LookupFs == {FsPlain, FsSecond, FsUnreadable}

InitLookup ==
    /\ config = ConfigOf(RouterOf("g", Tiers, 0), Empty, Empty)
    /\ \E f \in LookupFs : fs = f
    /\ sessionProjectCache = << >>
    /\ sessionUsageCache = << >>
    /\ pc = "idle"
    /\ req = NoReq
    /\ req0 = NoReq
    /\ env = NoEnv
    /\ out = NoOut
    /\ lastTurn = NoTurn
    /\ ParserIdle
    /\ AgentIdle
    /\ MoreIdle

\* the call finds the session in the cache and returns what get gives
LookupHit(t, s) ==
    /\ lookups[t].pc = "idle"
    /\ lookups[t].calls < MaxLookups
    /\ LruHas(sessionProjectCache, s)
    /\ LET found == searchProjectBySession(s, sessionProjectCache, fs)
       IN  /\ sessionProjectCache' = found.cache
           /\ lookups' = [lookups EXCEPT ![t] =
                 [pc |-> "idle", sessionId |-> s, project |-> found.project,
                  calls |-> @.calls + 1]]
    /\ UNCHANGED <<scans, config, fs, sessionUsageCache, pc, req, req0, env, out, lastTurn,
                   parserVars, agentVars, imageVars, refVars>>

\* the call misses the cache and starts the scan: await opendir
LookupMiss(t, s) ==
    /\ lookups[t].pc = "idle"
    /\ lookups[t].calls < MaxLookups
    /\ ~LruHas(sessionProjectCache, s)
    /\ lookups' = [lookups EXCEPT ![t] =
          [pc |-> "scanning", sessionId |-> s, project |-> Empty, calls |-> @.calls + 1]]
    /\ scans' = [scans EXCEPT ![s] = @ + 1]
    /\ UNCHANGED <<routerVars, parserVars, agentVars, imageVars, refVars>>

\* the scan ends: its result is set on the cache and returned
LookupScanned(t) ==
    /\ lookups[t].pc = "scanning"
    /\ LET found == scanAndCache(lookups[t].sessionId, sessionProjectCache, fs)
       IN  /\ sessionProjectCache' = found.cache
           /\ lookups' = [lookups EXCEPT ![t] =
                 [@ EXCEPT !.pc = "idle", !.project = found.project]]
    /\ UNCHANGED <<scans, config, fs, sessionUsageCache, pc, req, req0, env, out, lastTurn,
                   parserVars, agentVars, imageVars, refVars>>

NextLookup ==
    \/ \E t \in Tasks, s \in LookupSessions : LookupHit(t, s)
    \/ \E t \in Tasks, s \in LookupSessions : LookupMiss(t, s)
    \/ \E t \in Tasks : LookupScanned(t)

SpecLookup == InitLookup /\ [][NextLookup]_vars

(***************************************************************************)
(* The image cache at work: images are stored and read while time passes.  *)
(*   uses    the ids in the order of their last store or successful read,  *)
(*           least recent first                                            *)
(*   answer  what the last operation was, what it returned, the ids it     *)
(*           removed and the age the entry of its id had (-1: no entry)    *)
(***************************************************************************)
ImageIds == {"a", "b", "c"}
SourceOf(id) == <<"image", id>>
\* seq without the element x
RECURSIVE Without(_, _)
Without(seq, x) ==
    IF seq = << >> THEN << >>
    ELSE (IF Head(seq) = x THEN << >> ELSE <<Head(seq)>>) \o Without(Tail(seq), x)
KeysOf(cache) == {cache[i].key : i \in 1..Len(cache)}
AgeOf(cache, id, time) ==
    IF LruHas(cache, id) THEN time - cache[LruIndex(cache, id)].start ELSE -1

InitImages ==
    /\ RouterIdle
    /\ ParserIdle
    /\ AgentIdle
    /\ LookupIdle
    /\ ImageIdle
    /\ RefIdle

StoreImage(id) ==
    /\ imageCache' = storeImage(imageCache, id, SourceOf(id), now, ImageCacheMax)
    /\ uses' = Without(uses, id) \o <<id>>
    /\ answer' = [op |-> "store", id |-> id, source |-> Empty,
                  evicted |-> KeysOf(imageCache) \ KeysOf(imageCache'),
                  age |-> AgeOf(imageCache, id, now)]
    /\ UNCHANGED <<now, routerVars, parserVars, agentVars, lookupVars, refVars>>

GetImage(id) ==
    /\ imageCache' = getImage(imageCache, id, now).cache
    /\ uses' = IF getImage(imageCache, id, now).source # Empty
               THEN Without(uses, id) \o <<id>> ELSE uses
    /\ answer' = [op |-> "get", id |-> id, source |-> getImage(imageCache, id, now).source,
                  evicted |-> KeysOf(imageCache) \ KeysOf(imageCache'),
                  age |-> AgeOf(imageCache, id, now)]
    /\ UNCHANGED <<now, routerVars, parserVars, agentVars, lookupVars, refVars>>

\* time passes
Tick ==
    /\ now + TickMs <= MaxNow
    /\ now' = now + TickMs
    /\ UNCHANGED <<imageCache, uses, answer, routerVars, parserVars, agentVars, lookupVars, refVars>>

NextImages ==
    \/ \E id \in ImageIds : StoreImage(id)
    \/ \E id \in ImageIds : GetImage(id)
    \/ Tick

SpecImages == InitImages /\ [][NextImages]_vars



(***************************************************************************)
(* What the specification says of a routed request, stated on the request  *)
(* as received (req0), the configuration and the files.                    *)
(***************************************************************************)
Routed == pc = "routed"

\* router returned and consulted the built-in rule sequence
Selected == Routed /\ out.builtinInvoked

Chosen == req.body.model
Requested == req0.body.model

\* the system prompt the rule sequence receives
SystemSeen ==
    IF rewriteApplies(config, req0.body.system) /\ fs.prompt.exists
    THEN rewriteSystem(req0.body.system, fs.prompt.content)
    ELSE req0.body.system

\* the project of the request's session: the first directory, in iteration
\* order, that holds a regular file named after the session
ProjectOfSession ==
    LET hits == {i \in 1..Len(fs.entries) :
                    /\ fs.entries[i].isDirectory
                    /\ (req.sessionId \o <<".jsonl">>) \in fs.entries[i].files}
    IN  IF req.sessionId = Empty \/ ~fs.projectsReadable \/ hits = {} THEN Empty
        ELSE fs.entries[CHOOSE i \in hits : \A j \in hits : i <= j].name

SectionAt(path) == {f.Router : f \in {g \in fs.home : g.path = path /\ g.hasRouter}}

\* the routing sections scoped to the request: the session's, else the project's
ScopedSections ==
    IF ProjectOfSession = Empty THEN {}
    ELSE IF SectionAt(<<ProjectOfSession, req.sessionId \o <<".json">>>>) # {}
    THEN SectionAt(<<ProjectOfSession, req.sessionId \o <<".json">>>>)
    ELSE SectionAt(<<ProjectOfSession, <<"config", ".json">>>>)

HasScoped == ScopedSections # {}

\* the route configuration in effect for rules 2-7
RouteConfiguration ==
    IF HasScoped THEN CHOOSE R \in ScopedSections : TRUE ELSE config.Router

IsExplicit == \E i \in 1..Len(Requested) : Requested[i] = ","

IsPair == Cardinality({i \in 1..Len(Requested) : Requested[i] = ","}) = 1

PairComma == CHOOSE i \in 1..Len(Requested) : Requested[i] = ","

\* the configured spellings "name,model" the requested pair equals ignoring case
Spellings ==
    {config.Providers[i].name \o COMMA \o config.Providers[i].models[j] :
        <<i, j>> \in {<<a, b>> \in (1..Len(config.Providers)) \X (1..4) :
            /\ b <= Len(config.Providers[a].models)
            /\ toLowerCase(config.Providers[a].name)
                  = toLowerCase(SubSeq(Requested, 1, PairComma - 1))
            /\ toLowerCase(config.Providers[a].models[b])
                  = toLowerCase(SubSeq(Requested, PairComma + 1, Len(Requested)))}}

SpecThreshold(R) ==
    IF R.longContextThreshold = 0 THEN DEFAULT_LONG_CONTEXT_THRESHOLD
    ELSE R.longContextThreshold

SpecLongContext(R) ==
    /\ R.longContext # Empty
    /\ \/ out.tokenCount > SpecThreshold(R)
       \/ /\ out.lastUsage.present
          /\ out.lastUsage.input_tokens > SpecThreshold(R)
          /\ out.tokenCount > LAST_USAGE_TOKEN_FLOOR

SecondBlockText == SystemSeen.blocks[2].text

\* the second system block begins with the tag wrapping an identifier
SpecOverride ==
    /\ SystemSeen.kind = "array"
    /\ Len(SystemSeen.blocks) >= 2
    /\ Len(SecondBlockText) >= 2
    /\ SecondBlockText[1] = "<CCR-SUBAGENT-MODEL>"
    /\ \E j \in 2..Len(SecondBlockText) : SecondBlockText[j] = "</CCR-SUBAGENT-MODEL>"

OverrideEnd ==
    CHOOSE j \in 2..Len(SecondBlockText) :
        /\ SecondBlockText[j] = "</CCR-SUBAGENT-MODEL>"
        /\ \A k \in 2..(j - 1) : SecondBlockText[k] # "</CCR-SUBAGENT-MODEL>"

OverrideId == SubSeq(SecondBlockText, 2, OverrideEnd - 1)

SpecMarkers ==
    /\ \E i \in 1..Len(Requested) : Requested[i] = "claude"
    /\ \E i \in 1..Len(Requested) : Requested[i] = "haiku"

SpecBackground(R) == SpecMarkers /\ R.background # Empty

SpecWebSearch(R) ==
    /\ R.webSearch # Empty
    /\ \E i \in 1..Len(req0.body.tools) :
          /\ Len(req0.body.tools[i].type) >= 1
          /\ req0.body.tools[i].type[1] = "web_search"

SpecThink(R) == req0.body.thinking /\ R.think # Empty

\* rules 2-7 of selectTarget over the route configuration R
SpecSelect(R) ==
    IF SpecLongContext(R) THEN R.longContext
    ELSE IF SpecOverride THEN OverrideId
    ELSE IF SpecBackground(R) THEN R.background
    ELSE IF SpecWebSearch(R) THEN R.webSearch
    ELSE IF SpecThink(R) THEN R.think
    ELSE R.default

TargetsOf(R) ==
    {R.default, R.background, R.think, R.longContext, R.webSearch} \ {Empty}

\* what the built-in sequence selects for the request when no custom decision
\* function is configured
BuiltinTarget ==
    router(req0, [config EXCEPT !.CUSTOM_ROUTER_PATH = Empty], NoEnv,
           sessionProjectCache, sessionUsageCache, fs).req.body.model

(***************************************************************************)
(* C1: whenever the built-in sequence routes a request whose model is an   *)
(* explicit "provider,model" pair that resolves against the configured     *)
(* providers, the target written is that pair (as requested or in the      *)
(* configured spelling), whatever the other rule conditions are.           *)
(***************************************************************************)
C1_ExplicitPairWins ==
    (Selected /\ IsPair /\ Spellings # {})
        => Chosen \in ({Requested} \cup Spellings)

\* an explicit pair is routed to itself while the long-context, override,
\* background, web-search and thinking conditions all hold under a scoped section
C1_Witness ==
    /\ Selected
    /\ IsPair /\ Spellings # {}
    /\ Chosen = Requested
    /\ HasScoped
    /\ SpecLongContext(RouteConfiguration)
    /\ SpecOverride
    /\ SpecBackground(config.Router)
    /\ SpecWebSearch(RouteConfiguration)
    /\ SpecThink(RouteConfiguration)

(***************************************************************************)
(* C2: for a request with no explicit pair, the selected target is the     *)
(* target of the first rule, in the order long-context, embedded override, *)
(* background, web-search, thinking, default, whose condition holds in the *)
(* route configuration in effect.                                          *)
(***************************************************************************)
C2_FirstMatchWins ==
    (Selected /\ ~IsExplicit) => Chosen = SpecSelect(RouteConfiguration)

(***************************************************************************)
(* C3: rule 2 selects the long-context target if and only if a long-context*)
(* target is configured and (size > threshold, or the last usage exists,   *)
(* its input_tokens > threshold and size > 20000), the threshold being the *)
(* configured one or 60000.                                                *)
(***************************************************************************)
C3_LongContextRule ==
    (Selected /\ ~IsExplicit)
        => /\ (out.rule = "longContext") <=> SpecLongContext(RouteConfiguration)
           /\ SpecLongContext(RouteConfiguration)
                 => Chosen = RouteConfiguration.longContext

\* the rule fires through the last usage alone: the size is over 20000 and not
\* over the threshold
C3_Witness ==
    /\ Selected /\ ~IsExplicit
    /\ out.lastUsage.present
    /\ out.lastUsage.input_tokens > SpecThreshold(RouteConfiguration)
    /\ out.tokenCount > LAST_USAGE_TOKEN_FLOOR
    /\ out.tokenCount <= SpecThreshold(RouteConfiguration)
    /\ Chosen = RouteConfiguration.longContext

C5_CaseInsensitiveResolution ==
    (Selected /\ IsPair)
        => IF Spellings # {} THEN Chosen \in Spellings ELSE Chosen = Requested

(***************************************************************************)
(* C6: when a scoped routing section exists for the request's session,     *)
(* every target rules 2-7 consult is read from it and never from the       *)
(* global section.                                                         *)
(***************************************************************************)
C6_ScopedReplacesGlobal ==
    (Selected /\ HasScoped /\ ~IsExplicit)
        => /\ Chosen \notin TargetsOf(config.Router)
           /\ Chosen = SpecSelect(CHOOSE R \in ScopedSections : TRUE)

(***************************************************************************)
(* C7: if the requested model name contains "claude" and "haiku", a        *)
(* background target is configured and none of rules 1-3 matches, the      *)
(* selected target is the background target.                               *)
(***************************************************************************)
C7_BackgroundTier ==
    (/\ Selected
     /\ ~IsExplicit
     /\ ~SpecLongContext(RouteConfiguration)
     /\ ~SpecOverride
     /\ SpecBackground(RouteConfiguration))
        => Chosen = RouteConfiguration.background

(***************************************************************************)
(* C8: every call of router returns normally, and when a step of it raises *)
(* the target is the configured default.                                   *)
(***************************************************************************)
C8_RouterNeverThrows ==
    Routed
        => /\ out.outcome = "returned"
           /\ (out.rule = "fallback") => Chosen = config.Router.default

(***************************************************************************)
(* C9: a configured custom decision function is invoked before the built-in*)
(* rules; a non-empty result is the target outright; when it fails to load *)
(* or to run, or yields an empty result, router returns and the target is  *)
(* what the built-in sequence selects.                                     *)
(***************************************************************************)
C9_CustomDecision ==
    (/\ Routed
     /\ config.CUSTOM_ROUTER_PATH # Empty
     /\ out.outcome = "returned"
     /\ out.rule # "fallback")
        => /\ out.customInvoked
           /\ IF env.custom.kind = "value" /\ env.custom.value # Empty
              THEN Chosen = env.custom.value /\ ~out.builtinInvoked
              ELSE out.builtinInvoked /\ Chosen = BuiltinTarget

\* the custom function throws and a rule other than the default decides
C9_Witness ==
    /\ Routed
    /\ out.customInvoked
    /\ env.custom.kind = "throws"
    /\ out.outcome = "returned"
    /\ Chosen = BuiltinTarget
    /\ Chosen # config.Router.default

(***************************************************************************)
(* C10: when the second system block begins with the tag wrapping an       *)
(* identifier and rules 1-2 do not match, the target is the identifier     *)
(* verbatim and the tag with the identifier is removed from the front of   *)
(* that block, the rest of the system prompt being unchanged.              *)
(***************************************************************************)
C10_EmbeddedOverride ==
    (/\ Selected
     /\ ~IsExplicit
     /\ ~SpecLongContext(RouteConfiguration)
     /\ SpecOverride)
        => /\ Chosen = OverrideId
           /\ req.body.system =
                 [SystemSeen EXCEPT !.blocks[2].text =
                     SubSeq(SecondBlockText, OverrideEnd + 1, Len(SecondBlockText))]

\* the tag occurs twice in the block: only the leading one is removed
C10_Witness ==
    /\ Selected
    /\ SpecOverride
    /\ SystemSeen = SysTag
    /\ Chosen = SubId
    /\ req.body.system.blocks[2].text = <<"r">> \o Tagged(SubId)

(***************************************************************************)
(* C11: calculateTokenCount is additive over its three sections: the count *)
(* of a request is the count of its messages alone plus the count of its   *)
(* system prompt alone plus the count of its tools alone, and the count of *)
(* three empty sections is 0.                                              *)
(***************************************************************************)
C11_Additive ==
    /\ calculateTokenCount(<< >>, SysNone, << >>) = 0
    /\ (pc # "idle"
        /\ ~tokenCountThrows(req0.body.messages, req0.body.system, req0.body.tools))
          => calculateTokenCount(req0.body.messages, req0.body.system, req0.body.tools)
                = calculateTokenCount(req0.body.messages, SysNone, << >>)
                  + calculateTokenCount(<< >>, req0.body.system, << >>)
                  + calculateTokenCount(<< >>, SysNone, req0.body.tools)
    /\ (Routed /\ out.counted)
          => out.tokenCount
                = calculateTokenCount(req0.body.messages, SysNone, << >>)
                  + calculateTokenCount(<< >>, SystemSeen, << >>)
                  + calculateTokenCount(<< >>, SysNone, req0.body.tools)

\* a routed request whose three sections all count, each differently
C11_Witness ==
    /\ Routed /\ out.counted
    /\ calculateTokenCount(req0.body.messages, SysNone, << >>) = 6 * FillerTokens
    /\ calculateTokenCount(<< >>, SystemSeen, << >>) > 1
    /\ calculateTokenCount(<< >>, SysNone, req0.body.tools) > 1
    /\ out.tokenCount > 6 * FillerTokens + 2

(***************************************************************************)
(* C12: router sets the session identifier to the text after the          *)
(* "_session_" marker of metadata.user_id (a user_id holding one marker),  *)
(* leaves it unset when user_id is absent or holds no marker, and a        *)
(* request without session identifier is routed with the global           *)
(* configuration and without a stored usage.                               *)
(***************************************************************************)
SessionMarks == {i \in 1..Len(req0.body.metadata.user_id) :
                    req0.body.metadata.user_id[i] = "_session_"}

C12_SessionIdentifier ==
    Routed
        => /\ Cardinality(SessionMarks) = 1
                => req.sessionId =
                      SubSeq(req0.body.metadata.user_id,
                             (CHOOSE i \in SessionMarks : TRUE) + 1,
                             Len(req0.body.metadata.user_id))
           /\ SessionMarks = {} => req.sessionId = Empty
           /\ req.sessionId = Empty
                => /\ ~out.lastUsage.present
                   /\ out.builtinInvoked => out.scope = "global"
                   /\ (out.builtinInvoked /\ ~IsExplicit)
                         => Chosen = SpecSelect(config.Router)

\* the identifier after the marker is set and found both caches and a scoped
\* section
C12_Witness ==
    /\ Routed
    /\ Cardinality(SessionMarks) = 1
    /\ req.sessionId = <<"s1">>
    /\ out.lastUsage.present
    /\ out.scope = "session"

(***************************************************************************)
(* What the specification says of a parsed body, stated on its bytes.      *)
(***************************************************************************)
\* the events of the body written as one chunk
parseWhole(b) ==
    transform(<< >>, NoEvent, b).events
    \o flush(transform(<< >>, NoEvent, b).buffer, transform(<< >>, NoEvent, b).currentEvent)

WellFormedStreams ==
    {streamBytes(b, "block") : b \in UNION {[1..n -> WellFormedBlocks] : n \in 1..MaxBlocks}}

\* the lines of the body
BodyLines == split(decode(bytes), LF)

FieldNames == {"event", "data", "id", "retry"}
IsFieldLine(line, f) == Len(line) >= 2 /\ line[1] = f /\ line[2] = ":"
IsBlankLine(line) == \A i \in 1..Len(line) : line[i] \in Whitespace

\* the runs of non-blank lines between blank lines
RECURSIVE groupLines(_, _)
groupLines(lines, run) ==
    IF lines = << >> THEN (IF run = << >> THEN << >> ELSE <<run>>)
    ELSE IF IsBlankLine(Head(lines))
    THEN (IF run = << >> THEN << >> ELSE <<run>>) \o groupLines(Tail(lines), << >>)
    ELSE groupLines(Tail(lines), Append(run, Head(lines)))

HasField(block, f) == \E i \in 1..Len(block) : IsFieldLine(block[i], f)

\* the blocks of the body that set a field of an event
EventBlocks ==
    SelectSeq(groupLines(BodyLines, << >>), LAMBDA b : \E f \in FieldNames : HasField(b, f))

PayloadText(line) == trim(SubSeq(line, 3, Len(line)))

IsMalformed(line) ==
    /\ IsFieldLine(line, "data")
    /\ PayloadText(line) # <<"[DONE]">>
    /\ ~(/\ Len(PayloadText(line)) >= 2
         /\ PayloadText(line)[1] = "{"
         /\ PayloadText(line)[Len(PayloadText(line))] = "}")

LastDataLine(block) ==
    block[CHOOSE i \in 1..Len(block) :
            /\ IsFieldLine(block[i], "data")
            /\ \A j \in (i + 1)..Len(block) : ~IsFieldLine(block[j], "data")]

(***************************************************************************)
(* C13: for a well-formed body the events the parser emits are the same    *)
(* for every way of cutting its bytes into chunks, and parsing the         *)
(* serialization of the emitted events gives the same events again.        *)
(***************************************************************************)
C13_ChunkingAndRoundTrip ==
    (flushed /\ bytes \in WellFormedStreams)
        => /\ enqueued = parseWhole(bytes)
           /\ parseWhole(encode(serializeAll(enqueued))) = enqueued

(***************************************************************************)
(* C14 as stated: whenever a block holds a data: line that is neither the  *)
(* terminator token nor JSON, the event of that block carries the          *)
(* raw-text+error payload, and the later lines are still parsed.           *)
(***************************************************************************)
C14_AnyMalformedLine ==
    flushed
        => /\ Len(enqueued) = Len(EventBlocks)
           /\ \A k \in 1..Len(EventBlocks) :
                 (\E i \in 1..Len(EventBlocks[k]) : IsMalformed(EventBlocks[k][i]))
                    => /\ enqueued[k].data.set
                       /\ enqueued[k].data.value.kind = "error"

(***************************************************************************)
(* C14 amended: the parser emits one event for every block whatever        *)
(* malformed data: lines came before, and the event of a block whose last  *)
(* data: line is neither the terminator token nor JSON carries the         *)
(* raw-text+error payload holding that line's text.                        *)
(***************************************************************************)
C14_MalformedData ==
    flushed
        => /\ Len(enqueued) = Len(EventBlocks)
           /\ \A k \in 1..Len(EventBlocks) :
                 (HasField(EventBlocks[k], "data") /\ IsMalformed(LastDataLine(EventBlocks[k])))
                    => /\ enqueued[k].data.set
                       /\ enqueued[k].data.value.kind = "error"
                       /\ enqueued[k].data.value.text = PayloadText(LastDataLine(EventBlocks[k]))

\* a malformed block is followed by a block that is parsed
C14_Witness ==
    /\ flushed
    /\ Len(enqueued) = 2
    /\ enqueued[1].data.set /\ enqueued[2].data.set
    /\ enqueued[1].data.value.kind = "error"
    /\ enqueued[1].data.value.text = <<"{", "k">>
    /\ enqueued[2].data.value.kind = "json"
    /\ enqueued[2].event.set

(***************************************************************************)
(* C15: the parser never emits an event that has neither a payload nor a   *)
(* name.                                                                   *)
(***************************************************************************)
C15_NoEmptyEvent ==
    \A i \in 1..Len(enqueued) : enqueued[i].event.set \/ enqueued[i].data.set

(***************************************************************************)
(* C16: at the end of the body the partial line left in the buffer is      *)
(* processed as a last line and a draft with a field set is emitted: every *)
(* block of lines that sets a field has been emitted as exactly one event, *)
(* holding the fields its lines set, with or without a final blank line.   *)
(***************************************************************************)
C16_Flush ==
    flushed
        => /\ Len(enqueued) = Len(EventBlocks)
           /\ \A k \in 1..Len(EventBlocks) : \A f \in FieldNames :
                 enqueued[k][f].set <=> HasField(EventBlocks[k], f)

\* the body ends inside a data: line that follows an event: line
C16_Witness ==
    /\ flushed
    /\ trim(buffer) # << >>
    /\ IsFieldLine(buffer, "data")
    /\ Len(enqueued) = 2
    /\ enqueued[2].event.set
    /\ enqueued[2].data.set

(***************************************************************************)
(* The interceptor's claims.                                               *)
(***************************************************************************)
ToolFailures == {k \in 1..Len(log) : log[k].what = "tool"}
HandlerThrew == \E k \in ToolFailures : log[k].why = "handler"
Pulled == Len(scenario.events) - Len(source.events)
SourceDone == source.events = << >>
FullArgs == <<"{", "q", ":", "1", "}">>
ToolUseOf(id) ==
    [type |-> "tool_use", id |-> id, name |-> "analyzeImage", input |-> FullArgs]
ToolResultOf(id) ==
    [type |-> "tool_result", tool_use_id |-> id, content |-> <<"result", "of">> \o FullArgs]
OneCallThenTurnComplete(i, id) ==
    /\ scenario.events \in {GoodCall(i, id) \o <<MessageDelta>>,
                            GoodCall(i, id) \o <<MessageDelta, MessageStop>>}
    /\ ~HandlerThrew

\* C17: a stream made of one agent tool call (block-start, two argument
\* fragments, block-stop) whose handler returns, then the turn-complete event:
\* no continuation request is sent before the turn-complete event is
\* processed, and once it is, exactly one has been sent, whose messages are
\* the original ones, then one assistant entry holding the tool-use, then one
\* user entry holding the tool-result.
C17_OneContinuation ==
    \A c \in {<<0, "t1">>, <<1, "t2">>} :
        OneCallThenTurnComplete(c[1], c[2]) =>
            /\ Pulled <= Len(GoodCall(c[1], c[2])) => fetches = << >>
            /\ Pulled > Len(GoodCall(c[1], c[2])) =>
                  fetches = <<[messages |->
                      OriginalMessages
                      \o <<[role |-> "assistant", content |-> <<ToolUseOf(c[2])>>],
                           [role |-> "user", content |-> <<ToolResultOf(c[2])>>]>>]>>

C17_Witness ==
    /\ OneCallThenTurnComplete(0, "t1")
    /\ apc = "released"
    /\ Len(fetches) = 1
    /\ Len(fetches[1].messages) = Len(OriginalMessages) + 2
    /\ fetches[1].messages[Len(OriginalMessages) + 2].content = <<ToolResultOf("t1")>>

\* this step is executeAgentTool failing: the arguments did not parse or the
\* handler threw
ToolFailsNow ==
    /\ Len(log') = Len(log) + 1
    /\ log'[Len(log')].what = "tool"

\* C18: a step in which the arguments fail to parse or the handler throws at
\* block-stop leaves the output stream as it was (not errored, not closed),
\* records no tool-result, keeps pulling, and leaves the tool state reset, so
\* that a later tool call of the same stream is intercepted: after a call that
\* failed and a second call whose handler returned, the turn-complete event
\* sends one continuation request holding the second call's tool-result only.
C18_ToolFailureIsLocal ==
    /\ [][ToolFailsNow =>
             /\ controller' = controller
             /\ toolState'.toolMessages = toolState.toolMessages
             /\ apc' = "read"
             /\ source' = [source EXCEPT !.events = Tail(@)]
             /\ toolState'.currentToolIndex = -1
             /\ toolState'.currentToolArgs = << >>]_vars
    /\ [](/\ scenario.events = BadCall(0, "t0") \o GoodCall(1, "t2") \o <<MessageDelta>>
          /\ ~HandlerThrew
          /\ SourceDone
          => /\ Len(fetches) = 1
             /\ fetches[1].messages[Len(OriginalMessages) + 2].content
                   = <<ToolResultOf("t2")>>)

C18_Witness ==
    /\ scenario.events = BadCall(0, "t0") \o GoodCall(1, "t2") \o <<MessageDelta>>
    /\ ToolFailures # {}
    /\ ~HandlerThrew
    /\ SourceDone
    /\ Len(fetches) = 1
    /\ controller.state = "readable"

\* this step is the continuation failing: the request just sent failed at
\* network level, timed out or was answered with a non-success status, or the
\* read of the answer's body raised
ContinuationFailsNow ==
    \/ /\ apc = "fetch"
       /\ apc' \notin {"fetch", "pipe"}
    \/ /\ apc = "pipe"
       /\ apc' # "pipe"
       /\ response.events = << >>
       /\ response.end # NoError
ContinuationFailed == aborted \/ \E k \in 1..Len(log) : log[k].what = "fetch"
NothingUnexpected == \A k \in 1..Len(log) : log[k].what # "unexpected"

\* C19: a step in which the continuation fails leaves the outer output stream
\* as it was (not errored, nothing more enqueued) and the outer loop reading
\* its source; when the source then ends normally the output is not errored
\* and is closed.
C19_ContinuationFailureNotFatal ==
    /\ [][ContinuationFailsNow =>
             /\ controller' = controller
             /\ apc' = "read"
             /\ source'.end = source.end
             /\ \/ source'.events = source.events
                \/ source.events # << >> /\ source'.events = Tail(source.events)]_vars
    /\ [](/\ ContinuationFailed
          /\ NothingUnexpected
          /\ scenario.end = NoError
          => /\ controller.state # "errored"
             /\ apc = "released" =>
                   \/ controller.state = "closed"
                   \/ controller.closeRequested)

C19_Witness ==
    /\ scenario.events = GoodCall(0, "t1") \o <<MessageDelta, MessageStop>>
    /\ scenario.end = NoError
    /\ ContinuationFailed
    /\ Len(fetches) = 1
    /\ apc = "released"
    /\ controller.state = "closed"
    /\ delivered = <<MessageStop>>

\* C20: an exception that escapes the step function ends the pulling, and the
\* output stream is errored only with an error that is not of the
\* cancellation class (AbortError, ERR_STREAM_PREMATURE_CLOSE): on a
\* cancellation-class condition the output is never errored.
C20_ErrorClassification ==
    /\ (\E k \in 1..Len(log) : log[k].what = "unexpected") => apc = "released"
    /\ controller.state = "errored" => ~isCancellation(controller.error)

(***************************************************************************)
(* The caches' claims.                                                     *)
(***************************************************************************)
\* C21: over any interleaving of lookups the projects directory is scanned
\* at most once for a session, and a lookup that finds the session in the
\* cache returns what the first lookup returned.
C21_ScanAtMostOnce ==
    /\ \A s \in LookupSessions : scans[s] <= 1
    /\ \A t \in Tasks :
          /\ lookups[t].pc = "idle"
          /\ lookups[t].sessionId # Empty
          => lookups[t].project = scanProjects(fs, lookups[t].sessionId)

\* C22: the cache never holds more than its capacity; a store of a new id
\* at capacity evicts exactly the entry least recently used, reads and
\* writes alike counting as uses; an entry older than the time-to-live is
\* not returned by a lookup.
C22_BoundedLruTtl ==
    /\ Len(imageCache) <= ImageCacheMax
    /\ answer.op = "store" =>
          /\ Cardinality(answer.evicted) <= 1
          /\ \A k \in answer.evicted :
                \A j \in KeysOf(imageCache) \ {answer.id} :
                    \E p, q \in 1..Len(uses) : uses[p] = k /\ uses[q] = j /\ p < q
    /\ answer.op = "get" =>
          /\ answer.source # Empty => answer.age \in 0..IMAGE_TTL
          /\ answer.age > IMAGE_TTL => answer.source = Empty

\* C23: once a turn of a request with a session identifier is answered,
\* whatever the kind of the answer, the session usage cache holds the usage of
\* that turn for the session, which is what the routing of the next request
\* of the session reads as lastUsage.
C23_UsageRecorded ==
    lastTurn.sessionId # Empty =>
        /\ LruHas(sessionUsageCache, lastTurn.sessionId)
        /\ LruValue(sessionUsageCache, lastTurn.sessionId) = lastTurn.usage
        /\ usageGet(sessionUsageCache, lastTurn.sessionId).usage = lastTurn.usage

(***************************************************************************)
(* The interceptor's state and output, event by event.                     *)
(***************************************************************************)
\* this step is a turn of the loop of rewriteStream, on PulledEvent
PullsNow == source'.events # source.events
PulledEvent == Head(source.events)
\* the events the loop has read so far
ConsumedEvents == SubSeq(scenario.events, 1, Pulled)
IsAgentStart(ev) ==
    /\ ev.event = "content_block_start"
    /\ ev.data.set
    /\ \E a \in DOMAIN agentTools : ev.data.content_block.name \in agentTools[a]
IsStopOf(ev, i) == ev.data.set /\ ev.data.type = "content_block_stop" /\ ev.data.index = i
IsFragmentOf(ev, i) ==
    /\ ev.data.set
    /\ ev.data.index = i
    /\ ev.data.delta.set
    /\ ev.data.delta.type = "input_json_delta"
Bound == toolState.currentToolIndex > -1
Cleared(state) ==
    /\ state.currentAgent = ""
    /\ state.currentToolIndex = -1
    /\ state.currentToolName = ""
    /\ state.currentToolArgs = << >>
    /\ state.currentToolId = ""

ClearedAtStop ==
    [][(PullsNow /\ Bound /\ IsStopOf(PulledEvent, toolState.currentToolIndex))
          => Cleared(toolState')]_vars
IdleIsEmpty == [](~Bound => toolState.currentToolArgs = << >>)
StartsEmpty ==
    [][(PullsNow /\ IsAgentStart(PulledEvent)) => toolState'.currentToolArgs = << >>]_vars

\* C26: a block-stop event whose index is the bound one clears the
\* accumulator, the bound index, the tool's name and id and the agent, whether
\* the arguments parsed and the handler returned or not; while no tool is
\* bound the accumulator is empty; and an invocation starts with an empty
\* accumulator, so that nothing of an earlier invocation is in its arguments.
C26_StateReset == ClearedAtStop /\ IdleIsEmpty /\ StartsEmpty

\* the index of the last agent tool block-start among the events read, 0 if none
LastStart(events) ==
    IF \E k \in 1..Len(events) : IsAgentStart(events[k])
    THEN CHOOSE k \in 1..Len(events) :
            /\ IsAgentStart(events[k])
            /\ \A j \in (k + 1)..Len(events) : ~IsAgentStart(events[j])
    ELSE 0
\* the fragments of index i among events[from..], concatenated in order
RECURSIVE FragmentsOf(_, _, _)
FragmentsOf(events, from, i) ==
    IF from > Len(events) THEN << >>
    ELSE (IF IsFragmentOf(events[from], i) THEN events[from].data.delta.partial_json ELSE << >>)
         \o FragmentsOf(events, from + 1, i)
EntersOnAgentStart ==
    [][PullsNow =>
          /\ (~Bound /\ toolState'.currentToolIndex > -1) <=> (~Bound /\ IsAgentStart(PulledEvent))
          /\ IsAgentStart(PulledEvent) =>
                /\ toolState'.currentToolIndex = PulledEvent.data.index
                /\ toolState'.currentToolName = PulledEvent.data.content_block.name
                /\ toolState'.currentToolId = PulledEvent.data.content_block.id]_vars
AccumulatesOwnFragments ==
    [](Bound => toolState.currentToolArgs =
                   FragmentsOf(ConsumedEvents, LastStart(ConsumedEvents) + 1,
                               toolState.currentToolIndex))

\* C27: a tool becomes bound exactly when a content-block-start event naming a
\* tool of one of the request's agents is read, with the event's index, name
\* and id recorded; and the accumulated text, which is what is parsed at the
\* matching block-stop, is the concatenation in arrival order of the
\* fragments of the argument-delta events of the bound index read since that
\* block-start.
C27_ArgumentAccumulation == EntersOnAgentStart /\ AccumulatesOwnFragments

\* the event is consumed by interception in this state of the interceptor
Intercepted(ev, state) ==
    \/ IsAgentStart(ev)
    \/ state.currentToolIndex > -1 /\ IsFragmentOf(ev, state.currentToolIndex)
    \/ state.currentToolIndex > -1 /\ IsStopOf(ev, state.currentToolIndex)
    \/ ev.event = "message_delta" /\ Len(state.toolMessages) > 0
PassedOn == controller' = [controller EXCEPT !.queue = Append(@, PulledEvent)]

\* C28: while the output stream is open, reading a source event that
\* interception does not consume (an event of a tool no agent has, an event of
\* another index while a tool is bound, an event without data) appends that
\* event, as it is, to the output and does nothing else to the output; reading
\* an event that interception consumes appends nothing of the source.
C28_PassThrough ==
    [][(PullsNow /\ canCloseOrEnqueue(controller)) =>
          IF Intercepted(PulledEvent, toolState)
          THEN PulledEvent.event # "message_delta" => controller'.queue = controller.queue
          ELSE PassedOn]_vars

\* this step is a turn of the loop of pipeResponseToController on an event of
\* the continuation
PipesNow == apc = "pipe" /\ response.events # << >> /\ response' # response
IsEnvelope(ev) == ev.event \in {"message_start", "message_stop"}
IsPrefix(s, t) == Len(s) <= Len(t) /\ s = SubSeq(t, 1, Len(s))
\* what the consumer has read and what waits to be read
Output == delivered \o controller.queue
TextThenCall == TextBlock(0) \o GoodCall(1, "t2") \o <<MessageDelta>>
Spliced == TextBlock(0) \o <<TextDelta(0), MessageDelta>>

\* C29: while the continuation is forwarded no outer event is read; each turn
\* of the forwarding loop takes the continuation's next event, in the order
\* they were generated, and appends it to the output or, for the turn-start
\* and turn-stop envelopes, nothing; the outer turn-complete event that
\* started the continuation is not output. For a stream made of a text block,
\* an agent tool call whose handler returns and the turn-complete event, the
\* output is at all times a prefix of: the text block's events, then the
\* continuation's events without its envelopes.
C29_SplicingOrder ==
    /\ [][/\ apc = "pipe" => source' = source
          /\ PipesNow =>
                /\ response'.events = Tail(response.events)
                /\ IF IsEnvelope(Head(response.events))
                   THEN controller' = controller
                   ELSE controller' \in {controller, enqueue(controller, Head(response.events))}
          /\ (PullsNow /\ PulledEvent.event = "message_delta"
                /\ Len(toolState.toolMessages) > 0)
                => controller'.queue = controller.queue]_vars
    /\ []((scenario.events = TextThenCall /\ ~HandlerThrew) => IsPrefix(Output, Spliced))

C29_Witness ==
    /\ scenario.events = TextThenCall
    /\ apc = "released"
    /\ delivered = Spliced
    /\ controller.state = "closed"

(***************************************************************************)
(* The continuation's timer and connection.                                *)
(***************************************************************************)
INTERNAL_FETCH_TIMEOUT_MS == 30000
DEFAULT_API_TIMEOUT_MS == 600000
\* the step function waits for the continuation's backend: for the headers,
\* or for body data that does not come
AwaitsBackend == apc = "fetch" \/ (apc = "pipe" /\ Blocked)
HeadersBounded == apc = "fetch" => timeoutId = "pending"

\* C24: the internal timeout is shorter than the client-facing one, and
\* whenever the step function waits for the continuation's backend, for its
\* headers or for body data, the internal timer is pending, so that its
\* firing ends the wait.
C24_ContinuationBounded ==
    /\ INTERNAL_FETCH_TIMEOUT_MS < DEFAULT_API_TIMEOUT_MS
    /\ AwaitsBackend => timeoutId = "pending"

\* the forwarding loop is left although the continuation has not ended
LeavesContinuation == apc = "pipe" /\ apc' # "pipe" /\ response.events # << >>
ConnectionLeftOpen == apc \notin {"fetch", "pipe"} /\ connection = "open"

NoErrorFromContinuation ==
    [][(apc = "pipe" /\ apc' # "pipe") => controller'.state # "errored"]_vars

\* C25: when the forwarding of a continuation is given up before the
\* continuation's end (the consumer has terminated the output, or does not
\* accept more of it) or on a read error of the cancellation class, the
\* continuation's connection is not left open, and the output is not errored
\* by it.
C25_CancellationPropagates ==
    /\ [][LeavesContinuation => connection' \in {"aborted", "closed"}]_vars
    /\ [](~ConnectionLeftOpen)
    /\ NoErrorFromContinuation

\* the loop of rewriteStream and what it awaits go on whenever they can; the
\* answer to a continuation request need not come, the timer's firing does
SpecAgentFair ==
    /\ SpecAgent
    /\ WF_vars(\E handler \in Handlers : Pull(handler))
    /\ WF_vars(TimeoutFires)
    /\ WF_vars(Pipe)
    /\ WF_vars(EndOfSource)
    /\ WF_vars(ReadFails)

\* the output has ended: closed (by the loop or by the consumer) or errored
Ended == controller.state \in {"closed", "errored"}
ClosedOnce ==
    [][apc = "released" =>
          /\ apc' = "released"
          /\ source' = source
          /\ Len(controller'.queue) <= Len(controller.queue)
          /\ controller'.closeRequested = controller.closeRequested]_vars
ClosedAtExhaustion ==
    [][(apc = "read" /\ source.events = << >> /\ source.end = NoError /\ apc' # apc) =>
          /\ apc' = "released"
          /\ canCloseOrEnqueue(controller) =>
                (controller'.state = "closed" \/ controller'.closeRequested)]_vars
ReleasedWhenEnded == Ended ~> apc = "released"

\* C30: when the source is exhausted the output is closed and the source's
\* lock released in the same step; once the lock is released the source is
\* not read, nothing is enqueued and the output is not closed again; and
\* whenever the output has ended, by the source's end, by an error thrown in
\* the loop or by the consumer's cancel, the source's lock is released at once
\* or later.
C30_SourceReleased == ClosedAtExhaustion /\ ClosedOnce /\ ReleasedWhenEnded

(***************************************************************************)
(* The loop of rewriteStream and its consumer.                             *)
(***************************************************************************)
\* the consumer has cancelled the output: closed, and not by the loop
ConsumerGone == controller.state = "closed" /\ apc # "released"

\* C31: once the consumer has cancelled the output stream, the loop reads no
\* further event of the source and calls the step function no more.
C31_StopsPulling == [][ConsumerGone => ~PullsNow]_vars

\* what the step function does with the event read: "data", "undefined",
\* "fetch" or "throw" (the handler's outcome does not change which)
StepKind == createAgentStreamProcessor(PulledEvent, toolState, Agents, "returns").kind
StepRunning == apc \in {"fetch", "pipe"}

\* C32: the loop reads the source's events one by one in their order and
\* calls the step function on each once, never while an earlier call is still
\* running; a value the step returns is appended to the output once, after
\* whatever the step pushed itself, and a step returning nothing appends
\* nothing.
C32_StepContract ==
    /\ [][PullsNow => /\ apc = "read"
                      /\ source'.events = Tail(source.events)
                      /\ source'.end = source.end]_vars
    /\ [][StepRunning => source' = source]_vars
    /\ [][(PullsNow /\ canCloseOrEnqueue(controller)) =>
             /\ StepKind = "data" => controller' = enqueue(controller, PulledEvent)
             /\ StepKind \in {"undefined", "fetch"} => controller' = controller]_vars
    /\ []((scenario.events = GoodCall(0, "t1") \o <<MessageDelta, MessageStop>>
             /\ ~HandlerThrew /\ Len(Output) = 3)
          => Output = <<TextDelta(0), MessageDelta, MessageStop>>)

C32_Witness ==
    /\ scenario.events = GoodCall(0, "t1") \o <<MessageDelta, MessageStop>>
    /\ delivered = <<TextDelta(0), MessageDelta, MessageStop>>
    /\ source.events = << >>
    /\ Len(fetches) = 1

(***************************************************************************)
(* The result of the session's lookup.                                     *)
(***************************************************************************)
SessionFile(s) == s \o <<".jsonl">>
\* the entries of the projects directory that are directories holding a
\* regular file named after the session
Holders(files, s) ==
    {i \in 1..Len(files.entries) :
        /\ files.entries[i].isDirectory
        /\ SessionFile(s) \in files.entries[i].files}
ExpectedProject(files, s) ==
    IF ~files.projectsReadable \/ Holders(files, s) = {} THEN Empty
    ELSE files.entries[CHOOSE i \in Holders(files, s) :
                          \A j \in Holders(files, s) : i <= j].name

\* C33: a finished lookup has returned the name of the first entry of the
\* projects directory, in iteration order, that is a directory holding a
\* regular file named after the session (entries that are no directories and
\* directories holding only a directory of that name are passed over), and
\* the not-found result when there is no such entry or the directory cannot
\* be read.
C33_LookupResult ==
    \A t \in Tasks :
        (lookups[t].pc = "idle" /\ lookups[t].sessionId # Empty)
            => lookups[t].project = ExpectedProject(fs, lookups[t].sessionId)

C33_Witness ==
    /\ fs = FsSecond
    /\ lookups[1].pc = "idle"
    /\ lookups[1].sessionId = <<"s1">>
    /\ lookups[1].project = <<"p2">>
    /\ lookups[2].pc = "idle"
    /\ lookups[2].sessionId = <<"s2">>
    /\ lookups[2].project = Empty

(***************************************************************************)
(* The parser's event boundaries.                                          *)
(***************************************************************************)
\* the runs of non-blank lines that a blank line ends; the last element of
\* the split body is the partial line, which is no line yet
RECURSIVE terminatedRuns(_, _)
terminatedRuns(lines, run) ==
    IF lines = << >> THEN << >>
    ELSE IF IsBlankLine(Head(lines))
    THEN (IF run = << >> THEN << >> ELSE <<run>>) \o terminatedRuns(Tail(lines), << >>)
    ELSE terminatedRuns(Tail(lines), Append(run, Head(lines)))
TerminatedBlocks == terminatedRuns(SubSeq(BodyLines, 1, Len(BodyLines) - 1), << >>)
TerminatedEventBlocks ==
    SelectSeq(TerminatedBlocks, LAMBDA b : \E f \in FieldNames : HasField(b, f))
\* the event of a block: what its lines set on an empty draft
EventOf(block) == processLines(NoEvent, block, << >>).currentEvent
AllWritten == consumed = Len(bytes) /\ ~flushed

\* C34: when the whole body has been written, the events emitted are,
\* in order, one for every run of non-blank lines ended by a blank line that
\* sets a field, each holding exactly the fields its own lines set.
C34_EventBoundaries ==
    AllWritten
        => /\ Len(enqueued) = Len(TerminatedEventBlocks)
           /\ \A k \in 1..Len(enqueued) : enqueued[k] = EventOf(TerminatedEventBlocks[k])

(***************************************************************************)
(* The continuation requests of one response stream.                       *)
(***************************************************************************)
\* the assistant entry and the user entry that the k-th continuation request
\* ends with
AssistantOf(k) == fetches[k].messages[Len(fetches[k].messages) - 1].content
UserOf(k) == fetches[k].messages[Len(fetches[k].messages)].content

\* C35: in every continuation request the assistant entry holds as many
\* tool-use entries as the user entry holds tool-result entries, and the i-th
\* tool-result answers the i-th tool-use.
C35_Pairing ==
    \A k \in 1..Len(fetches) :
        /\ Len(AssistantOf(k)) = Len(UserOf(k))
        /\ \A i \in 1..Len(UserOf(k)) :
              /\ AssistantOf(k)[i].type = "tool_use"
              /\ UserOf(k)[i].type = "tool_result"
              /\ UserOf(k)[i].tool_use_id = AssistantOf(k)[i].id

ResultIds(k) == {UserOf(k)[i].tool_use_id : i \in 1..Len(UserOf(k))}

\* C36: no tool-result is sent in two continuation requests of the same
\* stream, and the history of the request never holds the same tool-result
\* entry twice.
C36_OneContinuationPerResult ==
    /\ \A j, k \in 1..Len(fetches) : j < k => ResultIds(j) \cap ResultIds(k) = {}
    /\ \A j, k \in 1..Len(reqMessages) :
          (j < k /\ reqMessages[j].role = "user" /\ reqMessages[j] # OriginalMessages[1])
             => reqMessages[j] # reqMessages[k]

IndicesOf(events, name) == {i \in 1..Len(events) : events[i].event = name}
\* the source's turn-stop events all come after a turn-complete event
TurnCompleteBeforeStop ==
    \A i \in IndicesOf(scenario.events, "message_stop") :
        \E j \in IndicesOf(scenario.events, "message_delta") : j < i

\* C37: when every turn-stop event of the source comes after a turn-complete
\* event, so does every turn-stop event the consumer has read, whatever became
\* of the continuation; and the output holds no more envelope events than the
\* loop has read from the source.
C37_TurnCompletion ==
    /\ TurnCompleteBeforeStop =>
          \A i \in IndicesOf(delivered, "message_stop") :
              \E j \in IndicesOf(delivered, "message_delta") : j < i
    /\ \A name \in {"message_start", "message_stop"} :
          Cardinality(IndicesOf(Output, name)) <= Cardinality(IndicesOf(ConsumedEvents, name))

(***************************************************************************)
(* The onSend hook and the agents' tools.                                  *)
(***************************************************************************)
\* C38: a streaming answer to a request for which the preHandler hook set
\* agents is sent to the client as the stream of the interceptor, with or
\* without a session identifier.
C38_InjectionImpliesInterception ==
    (lastTurn.kind = "stream" /\ lastTurn.agents) => lastTurn.sent = "intercepted"

(***************************************************************************)
(* The agent loop of one client request.                                   *)
(***************************************************************************)
\* the continuation requests issued so far are no more than the turn-complete
\* events of the source
FiniteContinuations ==
    Len(fetches) <= Cardinality(IndicesOf(scenario.events, "message_delta"))
StreamEnds == <>(apc = "released")

\* C39: the continuation requests issued for one client request are no more
\* than the turn-complete events that its stream carries, and the loop that
\* produces the client's response stream eventually ends.
C39_AgentLoopTerminates == []FiniteContinuations /\ StreamEnds

(***************************************************************************)
(* The reference count of processCheck.ts, changed by processes that run   *)
(* at the same time. Every call of the file system is one step.            *)
(*   procs[i].pc   idle, open (about to openSync), stat, unlink, sleep,    *)
(*                 locked (acquireLock returned true), write, release,     *)
(*                 done                                                    *)
(*   procs[i].retry  the loop variable of acquireLock                      *)
(*   procs[i].count  the local variable count                              *)
(***************************************************************************)
LOCK_TIMEOUT_MS == 5000
MAX_LOCK_RETRIES == 100
\* the tries of acquireLock that are followed; the steps of the clock
MaxRetries == 2
LockTickMs == 2600
MaxClock == 7800
Retries == IF MAX_LOCK_RETRIES < MaxRetries THEN MAX_LOCK_RETRIES ELSE MaxRetries

\* Date.now() - stats.mtimeMs > LOCK_TIMEOUT_MS
lockIsStale(lock, time) == time - lock.mtime > LOCK_TIMEOUT_MS
\* existsSync(REFERENCE_COUNT_FILE) ? parseInt(readFileSync(...)) || 0 : 0
readCount(file) == IF file.exists THEN file.value ELSE 0
incrementCount(c) == c + 1
\* Math.max(0, count - 1)
decrementCount(c) == IF c - 1 > 0 THEN c - 1 ELSE 0
applyOp(op, c) == IF op = "inc" THEN incrementCount(c) ELSE decrementCount(c)

\* a lock file that a process killed between acquireLock and releaseLock left
LeftLock == [exists |-> TRUE, mtime |-> 0]
CountFiles == {NoFile, [exists |-> TRUE, value |-> 0], [exists |-> TRUE, value |-> 1]}

InitRefCount ==
    /\ RouterIdle
    /\ ParserIdle
    /\ AgentIdle
    /\ LookupIdle
    /\ ImageIdle
    /\ lockFile \in {NoLock, LeftLock}
    /\ countFile \in CountFiles
    /\ countFile0 = countFile
    /\ procs = [i \in Procs |-> IdleProc]
    /\ clock = 0

RefUnchanged == UNCHANGED <<routerVars, parserVars, agentVars, lookupVars, imageVars>>

\* a process calls incrementReferenceCount or decrementReferenceCount
Begin(i, op) ==
    /\ procs[i].pc = "idle"
    /\ procs' = [procs EXCEPT ![i] = [@ EXCEPT !.pc = "open", !.op = op]]
    /\ UNCHANGED <<lockFile, countFile, countFile0, clock>>
    /\ RefUnchanged

\* acquireLock: openSync(LOCK_FILE, 'wx') creates the file or fails with EEXIST
OpenLock(i) ==
    /\ procs[i].pc = "open"
    /\ IF lockFile.exists
       THEN /\ procs' = [procs EXCEPT ![i] = [@ EXCEPT !.pc = "stat"]]
            /\ UNCHANGED lockFile
       ELSE /\ lockFile' = [exists |-> TRUE, mtime |-> clock]
            /\ procs' = [procs EXCEPT ![i] = [@ EXCEPT !.pc = "locked"]]
    /\ UNCHANGED <<countFile, countFile0, clock>>
    /\ RefUnchanged

\* acquireLock: statSync(LOCK_FILE) and the test of its age; a failing stat
\* is ignored
StatLock(i) ==
    /\ procs[i].pc = "stat"
    /\ procs' = [procs EXCEPT ![i] =
          [@ EXCEPT !.pc = IF lockFile.exists /\ lockIsStale(lockFile, clock)
                           THEN "unlink" ELSE "sleep"]]
    /\ UNCHANGED <<lockFile, countFile, countFile0, clock>>
    /\ RefUnchanged

\* acquireLock: unlinkSync(LOCK_FILE) of the lock found stale, errors ignored
UnlinkStale(i) ==
    /\ procs[i].pc = "unlink"
    /\ lockFile' = NoLock
    /\ procs' = [procs EXCEPT ![i] = [@ EXCEPT !.pc = "sleep"]]
    /\ UNCHANGED <<countFile, countFile0, clock>>
    /\ RefUnchanged

\* acquireLock: syncSleep, then the next turn of the loop or return false,
\* on which the caller warns and returns
SyncSleep(i) ==
    /\ procs[i].pc = "sleep"
    /\ procs' = [procs EXCEPT ![i] =
          IF @.retry + 1 < Retries
          THEN [@ EXCEPT !.pc = "open", !.retry = @ + 1]
          ELSE [@ EXCEPT !.pc = "done", !.retry = @ + 1, !.result = "skipped"]]
    /\ UNCHANGED <<lockFile, countFile, countFile0, clock>>
    /\ RefUnchanged

\* existsSync and readFileSync of the count
ReadCount(i) ==
    /\ procs[i].pc = "locked"
    /\ procs' = [procs EXCEPT ![i] = [@ EXCEPT !.pc = "write", !.count = readCount(countFile)]]
    /\ UNCHANGED <<lockFile, countFile, countFile0, clock>>
    /\ RefUnchanged

\* count++ or Math.max(0, count - 1), and writeFileSync
WriteCount(i) ==
    /\ procs[i].pc = "write"
    /\ countFile' = [exists |-> TRUE, value |-> applyOp(procs[i].op, procs[i].count)]
    /\ procs' = [procs EXCEPT ![i] = [@ EXCEPT !.pc = "release", !.count = countFile'.value]]
    /\ UNCHANGED <<lockFile, countFile0, clock>>
    /\ RefUnchanged

\* finally: releaseLock unlinks LOCK_FILE, errors ignored
ReleaseLock(i) ==
    /\ procs[i].pc = "release"
    /\ lockFile' = NoLock
    /\ procs' = [procs EXCEPT ![i] = [@ EXCEPT !.pc = "done", !.result = "applied"]]
    /\ UNCHANGED <<countFile, countFile0, clock>>
    /\ RefUnchanged

\* time passes
LockTick ==
    /\ clock + LockTickMs <= MaxClock
    /\ clock' = clock + LockTickMs
    /\ UNCHANGED <<lockFile, countFile, countFile0, procs>>
    /\ RefUnchanged

NextRefCount ==
    \/ \E i \in Procs, op \in {"inc", "dec"} : Begin(i, op)
    \/ \E i \in Procs : OpenLock(i)
    \/ \E i \in Procs : StatLock(i)
    \/ \E i \in Procs : UnlinkStale(i)
    \/ \E i \in Procs : SyncSleep(i)
    \/ \E i \in Procs : ReadCount(i)
    \/ \E i \in Procs : WriteCount(i)
    \/ \E i \in Procs : ReleaseLock(i)
    \/ LockTick

SpecRefCount == InitRefCount /\ [][NextRefCount]_vars

\* the process is between a successful acquireLock and its releaseLock
HoldsLock(i) == procs[i].pc \in {"locked", "write", "release"}
MutualExclusion == Cardinality({i \in Procs : HoldsLock(i)}) <= 1
CountNeverNegative == countFile.value >= 0
AllReturned == \A i \in Procs : procs[i].pc = "done"
NoneSkipped == \A i \in Procs : procs[i].result # "skipped"
\* the count after the operations of the processes, applied one at a time in
\* the order f
RECURSIVE OneAtATime(_, _, _)
OneAtATime(f, k, c) ==
    IF k > NumProcs THEN c ELSE OneAtATime(f, k + 1, applyOp(procs[f[k]].op, c))
SequentialCounts == {OneAtATime(f, 1, readCount(countFile0)) : f \in Permutations(Procs)}
AsOneAtATime ==
    AllReturned => NoneSkipped /\ countFile.exists /\ countFile.value \in SequentialCounts

\* C40: at most one process is between a successful acquireLock and its
\* releaseLock, the stored count is never negative, and when all the
\* operations have returned none was skipped and the stored count is what the
\* same operations give when applied one at a time in some order.
C40_ReferenceCountAtomic == MutualExclusion /\ CountNeverNegative /\ AsOneAtATime

====
